---- MODULE Spec2Model ----
(***************************************************************************)
(* Model of the preview generation subsystem of dtsync:                    *)
(*   PreviewCacheManager (preview_cache_manager.py) - job queue, active    *)
(*     set, settings, cache lookups, retry timer;                          *)
(*   PreviewWorker (preview.py) - one render attempt, run on a pool        *)
(*     thread, cancellable from the main thread;                           *)
(*   QThreadPool / Qt event loop - the pool queue and the queue of         *)
(*     signals posted by worker threads to the manager's (main) thread.    *)
(* Every manager method runs on the main thread and is one atomic action;  *)
(* a worker's run() is split at the points where the main thread can       *)
(* interleave (between a flag check and the emit that follows it).         *)
(***************************************************************************)
EXTENDS Integers, Sequences, FiniteSets, TLC

(***************************************************************************)
(* Bounds of the model.                                                    *)
(***************************************************************************)
MaxWorkers == 3         \* PreviewWorker objects alive at the same time
MaxCalls == 2           \* calls made by the UI into the manager
MaxThreadSetting == 2   \* largest max_threads the settings may choose
MaxSignals == 2         \* posted signals waiting in the main thread's queue

(***************************************************************************)
(* Program constants.                                                      *)
(***************************************************************************)
MaxRetries == 2         \* max_retries passed by process_pending_jobs

Files == {"a.xmp", "b.xmp", "c.xmp"}   \* sidecars present in both trees
Selectable == {"a.xmp", "c.xmp"}        \* files of the scans in Spec
Shared == {"a.xmp", "b.xmp"}            \* files of the scan in SpecShared
NoRaw == "None"
Sides == {"session", "archive"}
DefaultDimension == 800     \* preview_max_dimension of a fresh installation
Dimensions == {DefaultDimension, 1200}
CliPaths == {"", "no-such-cli", "darktable-cli"}   \* unset, invalid, valid
NoHash == "None"
Keys == Files \X Sides

(* The sidecars on disk: history_current_hash of each (file, side).  The   *)
(* two session sidecars carry the same hash (same edit applied to both),   *)
(* one archive sidecar has no history_current_hash at all.                 *)
SidecarHash(f, side) ==
    IF side = "session" THEN "A"
    ELSE IF f = "a.xmp" THEN "B" ELSE NoHash

(* The raw images on disk: c.xmp has lost its image.  _find_raw_file is    *)
(* the manager's lookup (sidecar name without .xmp, with or without a raw  *)
(* extension), infer_raw_file_path the UI's; neither finds an image that   *)
(* is not there.                                                           *)
RawOnDisk == {"a.xmp", "b.xmp"}
find_raw_file(f) == IF f \in RawOnDisk THEN f ELSE NoRaw
infer_raw_file_path(f) == IF f \in RawOnDisk THEN f ELSE NoRaw

(* subprocess.Popen finds a program to run under the configured path.     *)
Executable(cli_path) == cli_path = "darktable-cli"

(* Path of the sidecar of f on the given side (session_path/archive_path). *)
XmpPath(f, side) == <<side, f>>

(* A DiffRecord as the scanner emits it, reduced to the fields the         *)
(* manager reads.                                                          *)
DiffRecord(f) ==
    [session_path |-> XmpPath(f, "session"),
     archive_path |-> XmpPath(f, "archive"),
     session_hash |-> SidecarHash(f, "session"),
     archive_hash |-> SidecarHash(f, "archive")]

VARIABLES
    darktable_cli_path,     \* manager settings
    preview_max_dimension,
    max_threads,
    diff_files,             \* relative_path -> DiffRecord
    pending_jobs,           \* sequence of job records
    active_jobs,            \* (relative_path, image_type) -> worker
    completed_jobs,
    total_jobs,
    workers,                \* the PreviewWorker objects still referenced (by
                            \* the pool, a timer, a queued signal)
    pool_queue,             \* QThreadPool: runnables waiting for a thread
    pool_max,               \* QThreadPool.maxThreadCount
    retry_timers,           \* QTimer.singleShot(1000, ...) not fired yet
    signal_queue,           \* queued signals for the main thread
    cache,                  \* non-empty files under ~/.cache/dtsync
    last_ready,             \* preview_ready emitted by the manager itself
                            \* during the current manager call
    ui_calls,               \* number of calls the UI has made so far
    last_call,              \* the UI call made by the current step, if any
    scanner,                \* the ScannerWorker and the signals it has emitted
    tree,                   \* the sidecars of the session and archive trees
    xmp,                    \* two sidecar documents and what was extracted from them
    locking,                \* the manager's mutex and who is where inside the manager
    disk                    \* the sidecar files of the two directories and the planned actions

vars == <<darktable_cli_path, preview_max_dimension, max_threads, diff_files,
          pending_jobs, active_jobs, completed_jobs, total_jobs, workers,
          pool_queue, pool_max, retry_timers, signal_queue, cache,
          last_ready, ui_calls, last_call, scanner, tree, xmp,
          locking, disk>>

manager_vars == <<darktable_cli_path, preview_max_dimension, max_threads, diff_files,
                  pending_jobs, active_jobs, completed_jobs, total_jobs, workers,
                  pool_queue, pool_max, retry_timers, signal_queue, cache,
                  last_ready, ui_calls, last_call>>

(* ScannerWorker.__init__: nothing enumerated, nothing emitted.  extracted *)
(* is a history field: the sidecars extract_darktable_data was called on.  *)
ScannerWorker ==
    [pc |-> "Idle", is_running |-> TRUE, xmp_files_to_scan |-> <<>>, i |-> 0,
     signals |-> <<>>, extracted |-> {}]

mgr_settings == <<darktable_cli_path, preview_max_dimension, max_threads, pool_max>>
mgr_jobs == <<pending_jobs, active_jobs, completed_jobs, total_jobs>>

(***************************************************************************)
(* Pure helpers of the manager and the worker.                             *)
(***************************************************************************)

(* hash_part: the history hash when truthy, else str(hash(xmp_file)).      *)
hash_part(history_hash, xmp_file) ==
    IF history_hash # NoHash THEN <<"hash", history_hash>>
    ELSE <<"pathhash", xmp_file>>

(* <cache_root>/<dimension>/<hash_part>_<image_type>.jpg                   *)
get_cache_path(dimension, image_type, history_hash, xmp_file) ==
    <<dimension, hash_part(history_hash, xmp_file), image_type>>

(* Mutant: the file name is always built with the "session" suffix. *)
preview_exists_session_only(job) ==
    get_cache_path(preview_max_dimension, "session", job.history_hash,
                   job.xmp_file) \in cache

preview_exists(job) ==
    get_cache_path(preview_max_dimension, job.image_type, job.history_hash,
                   job.xmp_file) \in cache

is_preview_cached(relative_path, image_type, history_hash, xmp_file) ==
    preview_exists([relative_path |-> relative_path, image_type |-> image_type,
                    history_hash |-> history_hash, xmp_file |-> xmp_file])

JobKey(job) == <<job.relative_path, job.image_type>>

(* Mutant: the job goes to the back of the pending queue. *)
RequestSide_at_back(pending, relative_path, image_type, xmp_path, hash_val) ==
    IF preview_exists([relative_path |-> relative_path, image_type |-> image_type,
                       history_hash |-> hash_val, xmp_file |-> xmp_path])
       \/ \E i \in 1..Len(pending) : (pending[i].relative_path = relative_path
                                      /\ pending[i].image_type = image_type)
       \/ <<relative_path, image_type>> \in DOMAIN active_jobs
    THEN pending
    ELSE Append(pending, [relative_path |-> relative_path, image_type |-> image_type,
                          xmp_file |-> xmp_path, history_hash |-> hash_val])

(* Mutant: the scan of the pending queue is left out. *)
is_job_scheduled_active_only(pending, active, rel_path, image_type) ==
    <<rel_path, image_type>> \in DOMAIN active

is_job_scheduled_in(pending, active, rel_path, image_type) ==
    \/ <<rel_path, image_type>> \in DOMAIN active
    \/ \E i \in 1..Len(pending) :
          /\ pending[i].relative_path = rel_path
          /\ pending[i].image_type = image_type

is_job_scheduled(rel_path, image_type) ==
    is_job_scheduled_in(pending_jobs, active_jobs, rel_path, image_type)

Job(relative_path, image_type, xmp_file, history_hash) ==
    [relative_path |-> relative_path, image_type |-> image_type,
     xmp_file |-> xmp_file, history_hash |-> history_hash]

(* PreviewWorker.__init__ ; attempts and stale are history fields: the     *)
(* renderer invocations made so far for this job (earlier attempts         *)
(* included), and whether cancel_all_jobs was called while the job was     *)
(* outstanding.  run_temp_dir is the scratch directory of run() ("None"    *)
(* until created, then "exists", then "removed"); outcome is how the       *)
(* renderer of this worker ended, for as long as run() deals with it.      *)
PreviewWorker(cli_path, job, width, retry_count, max_retries, attempts, stale) ==
    [cli_path |-> cli_path,
     rel_path |-> job.relative_path, image_type |-> job.image_type,
     xmp_file_path |-> job.xmp_file, history_hash |-> job.history_hash,
     preview_width |-> width, retry_count |-> retry_count,
     max_retries |-> max_retries,
     is_cancelled |-> FALSE, process |-> "None", pc |-> "new",
     emitted |-> "none", job_finished |-> 0,
     attempts |-> attempts, stale |-> stale,
     run_temp_dir |-> "None", outcome |-> "None"]

WorkerIds == DOMAIN workers
NewId(ws) == CHOOSE i \in 1..(Cardinality(DOMAIN ws) + 1) :
                 /\ i \notin DOMAIN ws
                 /\ \A j \in 1..(i - 1) : j \in DOMAIN ws
WorkerKey(w) == <<workers[w].rel_path, workers[w].image_type>>
(* run(), lines 586-597: the worker's own computation of its output file,  *)
(* <cache_root>/<preview_width>/<hash_part>_<image_type>.jpg with          *)
(* hash_part the history hash when truthy, else str(hash(xmp_file_path)).  *)
run_output_path(worker) ==
    <<worker.preview_width,
      IF worker.history_hash # NoHash THEN <<"hash", worker.history_hash>>
      ELSE <<"pathhash", worker.xmp_file_path>>,
      worker.image_type>>

OutputPath(w) == run_output_path(workers[w])

RunPcs == {"run", "cache", "launch", "communicate", "verify", "except",
           "emit_ready", "handle_failure"}
Running == {w \in WorkerIds : workers[w].pc \in RunPcs}

Put(f, k, v) == [x \in DOMAIN f \cup {k} |-> IF x = k THEN v ELSE f[x]]
Drop(f, k) == [x \in DOMAIN f \ {k} |-> f[x]]

(***************************************************************************)
(* process_pending_jobs: start jobs while the active set is below          *)
(* max_threads.  st carries the queues the loop mutates.                   *)
(***************************************************************************)
RECURSIVE process_pending_jobs(_)
process_pending_jobs(st) ==
    IF Cardinality(DOMAIN st.active) < max_threads /\ st.pending # <<>>
    THEN LET job == Head(st.pending)
             id == NewId(st.workers)
             worker == [PreviewWorker(darktable_cli_path, job,
                                      preview_max_dimension, 0, MaxRetries,
                                      0, FALSE)
                            EXCEPT !.pc = "queued"]
         IN process_pending_jobs(
                [pending |-> Tail(st.pending),
                 active |-> Put(st.active, JobKey(job), id),
                 workers |-> Put(st.workers, id, worker),
                 pool |-> Append(st.pool, id)])
    ELSE st

Queues == [pending |-> pending_jobs, active |-> active_jobs,
           workers |-> workers, pool |-> pool_queue]

Commit(st) ==
    /\ Cardinality(DOMAIN st.workers) <= MaxWorkers
    /\ pending_jobs' = st.pending
    /\ active_jobs' = st.active
    /\ workers' = st.workers
    /\ pool_queue' = st.pool


Call(op, file, side) == [op |-> op, file |-> file, side |-> side]
NoCall == Call("", "", "")

(***************************************************************************)
(* Initial state: the manager as MainWindow constructs it, i.e. __init__   *)
(* followed by update_settings with the loaded settings; nothing scanned,  *)
(* nothing rendered in this run, any earlier run's cache files on disk.    *)
(***************************************************************************)
Init ==
    /\ darktable_cli_path = "darktable-cli"
    /\ preview_max_dimension = DefaultDimension
    /\ max_threads \in 1..MaxThreadSetting
    /\ pool_max = max_threads
    /\ diff_files = <<>>
    /\ pending_jobs = <<>>
    /\ active_jobs = <<>>
    /\ completed_jobs = 0
    /\ total_jobs = 0
    /\ workers = <<>>
    /\ pool_queue = <<>>
    /\ retry_timers = <<>>
    /\ signal_queue = <<>>
    /\ cache = {}
    /\ last_ready = {}
    /\ ui_calls = 0
    /\ last_call = NoCall
    /\ scanner = ScannerWorker
    /\ tree = <<>>
    /\ xmp = <<>>
    /\ locking = <<>>
    /\ disk = <<>>

(***************************************************************************)
(* PreviewWorker.cancel, called by the manager on the main thread.         *)
(* kill() on a process that already exited is a no-op.                     *)
(***************************************************************************)
cancel(worker) ==
    [worker EXCEPT !.is_cancelled = TRUE,
                   !.process = IF @ = "running" THEN "killed" ELSE @]

(* History: every job outstanding at the time of a cancel_all_jobs call.   *)
MarkStale(worker) ==
    [worker EXCEPT !.stale = IF worker.pc # "done" THEN TRUE ELSE @]

(***************************************************************************)
(* cancel_all_jobs: the state of the queues after the call.                *)
(***************************************************************************)
(* Mutant: the queues are cleared but no worker is cancelled. *)
cancel_all_jobs_keeps_workers(st) ==
    [pending |-> <<>>,
     active |-> <<>>,
     workers |-> [w \in DOMAIN st.workers |-> MarkStale(st.workers[w])],
     pool |-> st.pool]

cancel_all_jobs_in(st) ==
    LET act == {st.active[k] : k \in DOMAIN st.active}
    IN [pending |-> <<>>,
        active |-> <<>>,
        workers |-> [w \in DOMAIN st.workers |->
                        MarkStale(IF w \in act THEN cancel(st.workers[w])
                                  ELSE st.workers[w])],
        pool |-> st.pool]

cancel_all_jobs ==
    /\ Commit(cancel_all_jobs_in(Queues))
    /\ completed_jobs' = 0
    /\ total_jobs' = 0
    /\ last_ready' = {}
    /\ UNCHANGED <<mgr_settings, diff_files, retry_timers, signal_queue, cache>>

(***************************************************************************)
(* schedule_preview_generation: the jobs of the bulk pass, in the          *)
(* iteration order of the diff_files dict (order), session before archive, *)
(* leaving out those whose preview already exists.                         *)
(***************************************************************************)
FilterJobs(jobs) == SelectSeq(jobs, LAMBDA job : ~preview_exists(job))

RECURSIVE BulkJobs(_, _)
BulkJobs(order, files) ==
    IF order = <<>> THEN <<>>
    ELSE LET f == Head(order)
             jobs == <<Job(f, "session", files[f].session_path, files[f].session_hash),
                       Job(f, "archive", files[f].archive_path, files[f].archive_hash)>>
         IN IF find_raw_file(f) = NoRaw
            THEN BulkJobs(Tail(order), files)
            ELSE FilterJobs(jobs) \o BulkJobs(Tail(order), files)

Orders(S) == {o \in UNION {[1..n -> S] : n \in {Cardinality(S)}} :
                 \A i, j \in DOMAIN o : i # j => o[i] # o[j]}

(***************************************************************************)
(* set_diff_files = cancel_all_jobs; diff_files = ...;                     *)
(*                  schedule_preview_generation                            *)
(***************************************************************************)
set_diff_files(order) ==
    LET files == [f \in {order[i] : i \in DOMAIN order} |-> DiffRecord(f)]
        cancelled == cancel_all_jobs_in(Queues)
        scheduled == [cancelled EXCEPT !.pending = BulkJobs(order, files)]
    IN /\ diff_files' = files
       /\ last_ready' = {}
       /\ IF darktable_cli_path = "" \/ order = <<>>
          THEN /\ Commit(cancelled)
               /\ completed_jobs' = 0
               /\ total_jobs' = 0
          ELSE /\ Commit(process_pending_jobs(scheduled))
               /\ completed_jobs' = 0
               /\ total_jobs' = Len(scheduled.pending)
       /\ UNCHANGED <<mgr_settings, retry_timers, signal_queue, cache>>

(***************************************************************************)
(* request_preview_generation / request_single_preview_generation.         *)
(* RequestSide is the body run for one image type: a cached preview is     *)
(* announced at once, a scheduled key is left alone, otherwise the job     *)
(* goes to the front of the pending queue.                                 *)
(***************************************************************************)
RequestSide(pending, relative_path, image_type, xmp_path, hash_val) ==
    IF is_preview_cached(relative_path, image_type, hash_val, xmp_path)
    THEN pending
    ELSE IF is_job_scheduled_in(pending, active_jobs, relative_path, image_type)
    THEN pending
    ELSE <<Job(relative_path, image_type, xmp_path, hash_val)>> \o pending

ReadySide(relative_path, image_type, xmp_path, hash_val) ==
    IF is_preview_cached(relative_path, image_type, hash_val, xmp_path)
    THEN {<<relative_path, image_type,
            get_cache_path(preview_max_dimension, image_type, hash_val, xmp_path)>>}
    ELSE {}

request_preview_generation(relative_path) ==
    /\ relative_path \in DOMAIN diff_files
    /\ LET rec == diff_files[relative_path]
           p1 == RequestSide(pending_jobs, relative_path, "session",
                             rec.session_path, rec.session_hash)
           p2 == RequestSide(p1, relative_path, "archive",
                             rec.archive_path, rec.archive_hash)
       IN IF darktable_cli_path = ""
          THEN UNCHANGED <<pending_jobs, active_jobs, workers, pool_queue>>
               /\ last_ready' = {}
          ELSE /\ Commit(process_pending_jobs([Queues EXCEPT !.pending = p2]))
               /\ last_ready' =
                     ReadySide(relative_path, "session", rec.session_path, rec.session_hash)
                     \cup ReadySide(relative_path, "archive", rec.archive_path, rec.archive_hash)
    /\ UNCHANGED <<mgr_settings, diff_files, completed_jobs, total_jobs,
                   retry_timers, signal_queue, cache>>

request_single_preview_generation(relative_path, image_type) ==
    /\ relative_path \in DOMAIN diff_files
    /\ LET rec == diff_files[relative_path]
           xmp_path == IF image_type = "session" THEN rec.session_path
                       ELSE rec.archive_path
           history_hash == IF image_type = "session" THEN rec.session_hash
                           ELSE rec.archive_hash
       IN IF darktable_cli_path = ""
          THEN UNCHANGED <<pending_jobs, active_jobs, workers, pool_queue>>
               /\ last_ready' = {}
          ELSE IF is_preview_cached(relative_path, image_type, history_hash, xmp_path)
          THEN UNCHANGED <<pending_jobs, active_jobs, workers, pool_queue>>
               /\ last_ready' = ReadySide(relative_path, image_type, xmp_path, history_hash)
          ELSE IF is_job_scheduled(relative_path, image_type)
          THEN UNCHANGED <<pending_jobs, active_jobs, workers, pool_queue>>
               /\ last_ready' = {}
          ELSE /\ Commit(process_pending_jobs(
                     [Queues EXCEPT !.pending =
                         <<Job(relative_path, image_type, xmp_path, history_hash)>>
                         \o pending_jobs]))
               /\ last_ready' = {}
    /\ UNCHANGED <<mgr_settings, diff_files, completed_jobs, total_jobs,
                   retry_timers, signal_queue, cache>>

(***************************************************************************)
(* update_settings.  The dimension test is made after the assignment, as   *)
(* in the source, so it compares the new dimension with itself.            *)
(***************************************************************************)
(* Mutant: the whole cache root is removed. *)
clear_cache_for_dimension_in_root(files, dimension) == {}

clear_cache_for_dimension_in(files, dimension) ==
    {p \in files : p[1] # dimension}

(***************************************************************************)
(* shutil.rmtree of a directory holding the files doomed: either all of    *)
(* them are removed, or the removal stops with an OSError after any part   *)
(* of them is gone.  An absent directory is not handed to rmtree; it and   *)
(* an empty one both show as doomed = {}.                                  *)
(***************************************************************************)
rmtree(files, doomed) ==
    {[left |-> files \ doomed, error |-> "none"]}
    \cup {[left |-> files \ gone, error |-> "OSError"] : gone \in SUBSET doomed}

(* try: ... except OSError as e: print(...) *)
except_OSError(error) == IF error = "OSError" THEN "none" ELSE error

Cleared(files, dimension, outcome) ==
    [dimension |-> dimension, error |-> outcome.error,
     raised |-> except_OSError(outcome.error), removed |-> files \ outcome.left]

update_settings(cli_path, dimension, threads) ==
    LET settings_changed == \/ darktable_cli_path # cli_path
                            \/ preview_max_dimension # dimension
                            \/ max_threads # threads
    IN /\ darktable_cli_path' = cli_path
       /\ preview_max_dimension' = dimension
       /\ max_threads' = threads
       /\ pool_max' = threads
       /\ cache' = IF settings_changed /\ preview_max_dimension' # dimension
                   THEN clear_cache_for_dimension_in(cache, preview_max_dimension')
                   ELSE cache
       /\ last_ready' = {}
       /\ UNCHANGED <<diff_files, mgr_jobs, workers, pool_queue, retry_timers,
                      signal_queue>>

clear_cache_for_dimension(dimension, outcome) ==
    /\ outcome \in rmtree(cache, cache \ clear_cache_for_dimension_in(cache, dimension))
    /\ cache' = outcome.left
    /\ last_ready' = {}
    /\ UNCHANGED <<mgr_settings, diff_files, mgr_jobs, workers, pool_queue,
                   retry_timers, signal_queue>>

(***************************************************************************)
(* clear_cache_for_file: the files of the current dimension's directory    *)
(* whose name, up to its first underscore, is one of the file's candidate  *)
(* hashes are removed, whatever their image type.                          *)
(***************************************************************************)
possible_hashes(file_info) ==
    {<<"hash", h>> : h \in {file_info.session_hash, file_info.archive_hash} \ {NoHash}}
    \cup {<<"pathhash", file_info.session_path>>, <<"pathhash", file_info.archive_path>>}

(* Mutant: the path-based fallback hashes are not looked for. *)
clear_cache_for_file_in_hash_only(files, relative_path) ==
    IF relative_path \notin DOMAIN diff_files THEN files
    ELSE {p \in files :
             \/ p[1] # preview_max_dimension
             \/ p[2] \notin {<<"hash", h>> :
                                h \in {diff_files[relative_path].session_hash,
                                       diff_files[relative_path].archive_hash}}}

clear_cache_for_file_in(files, relative_path) ==
    IF relative_path \notin DOMAIN diff_files THEN files
    ELSE {p \in files : \/ p[1] # preview_max_dimension
                        \/ p[2] \notin possible_hashes(diff_files[relative_path])}

clear_cache_for_file(relative_path) ==
    /\ cache' = clear_cache_for_file_in(cache, relative_path)
    /\ last_ready' = {}
    /\ UNCHANGED <<mgr_settings, diff_files, mgr_jobs, workers, pool_queue,
                   retry_timers, signal_queue>>

clear_all_caches(outcome) ==
    /\ outcome \in rmtree(cache, cache)
    /\ cache' = outcome.left
    /\ last_ready' = {}
    /\ UNCHANGED <<mgr_settings, diff_files, mgr_jobs, workers, pool_queue,
                   retry_timers, signal_queue>>


(***************************************************************************)
(* Qt plumbing.  Signals emitted by a worker thread towards the manager    *)
(* are queued and handled later on the main thread, in emission order.     *)
(* preview_ready / preview_failed have no effect on the manager            *)
(* (on_preview_ready, on_preview_failed only log), so their emission is    *)
(* recorded on the worker (field emitted) and not queued.                  *)
(***************************************************************************)
Signal(name, w) == [sig |-> name, w |-> w]

(* A finished worker is freed once no queued signal refers to it.          *)
Release(ws, w, queue) ==
    IF ws[w].pc = "done" /\ \A i \in 1..Len(queue) : queue[i].w # w
    THEN Drop(ws, w) ELSE ws

Emit(queue, name, w) == Append(queue, Signal(name, w))

CanPost(n) == Len(signal_queue) + n <= MaxSignals

(* QThreadPool: a waiting runnable gets a thread when fewer than           *)
(* maxThreadCount are busy.                                                *)
pool_dispatch(w) ==
    /\ pool_queue # <<>>
    /\ w = Head(pool_queue)
    /\ Cardinality(Running) < pool_max
    /\ pool_queue' = Tail(pool_queue)
    /\ workers' = [workers EXCEPT ![w].pc = "run"]
    /\ last_ready' = {}
    /\ UNCHANGED <<mgr_settings, diff_files, mgr_jobs, retry_timers,
                   signal_queue, cache>>

WorkerStep(w, worker, queue, files) ==
    /\ workers' = [workers EXCEPT ![w] = worker]
    /\ signal_queue' = queue
    /\ cache' = files
    /\ last_ready' = {}
    /\ UNCHANGED <<mgr_settings, diff_files, mgr_jobs, pool_queue, retry_timers>>

(* A finally clause that leaves the scratch directory behind.              *)
run_finally_keeps_dir(w, worker, queue) ==
    /\ CanPost(Len(queue) - Len(signal_queue) + 1)
    /\ WorkerStep(w, [worker EXCEPT !.pc = "done", !.process = "None",
                                    !.outcome = "None",
                                    !.job_finished = @ + 1],
                  Emit(queue, "job_finished", w), cache)

(* finally: self._process = None; rmtree(run_temp_dir); job_finished       *)
run_finally(w, worker, queue) ==
    /\ CanPost(Len(queue) - Len(signal_queue) + 1)
    /\ WorkerStep(w, [worker EXCEPT !.pc = "done", !.process = "None",
                                    !.run_temp_dir = "removed", !.outcome = "None",
                                    !.job_finished = @ + 1],
                  Emit(queue, "job_finished", w), cache)

(* An early return of run(), before the try block: job_finished; return    *)
run_return(w, worker) ==
    /\ CanPost(1)
    /\ WorkerStep(w, [worker EXCEPT !.pc = "done", !.job_finished = @ + 1],
                  Emit(signal_queue, "job_finished", w), cache)

(***************************************************************************)
(* PreviewWorker.run, step by step.                                        *)
(***************************************************************************)

(* if self.is_cancelled: job_finished; return                              *)
run_check_cancelled(w) ==
    /\ workers[w].pc = "run"
    /\ IF workers[w].is_cancelled
       THEN run_return(w, workers[w])
       ELSE WorkerStep(w, [workers[w] EXCEPT !.pc = "cache"], signal_queue, cache)

(* If a cached preview exists and is valid, use it; otherwise the second   *)
(* if self.is_cancelled: job_finished; return; otherwise                   *)
(* os.makedirs(run_temp_dir) and on to the try block.                      *)
run_use_cached(w) ==
    /\ workers[w].pc = "cache"
    /\ IF OutputPath(w) \in cache
       THEN run_return(w, [workers[w] EXCEPT !.emitted = "preview_ready"])
       ELSE IF workers[w].is_cancelled
       THEN run_return(w, workers[w])
       ELSE WorkerStep(w, [workers[w] EXCEPT !.pc = "launch", !.run_temp_dir = "exists"],
                       signal_queue, cache)

(* try: with mutex: if cancelled: job_finished; return  -- the return      *)
(* leaves through the finally clause, which emits job_finished again.      *)
(* Otherwise Popen, which raises OSError for an unusable cli path; that    *)
(* exception is not caught by run() and leaves through finally too.        *)
run_launch(w) ==
    /\ workers[w].pc = "launch"
    /\ IF workers[w].is_cancelled
       THEN run_finally(w, [workers[w] EXCEPT !.job_finished = @ + 1],
                        Emit(signal_queue, "job_finished", w))
       ELSE IF ~Executable(workers[w].cli_path)
       THEN run_finally(w, workers[w], signal_queue)
       ELSE WorkerStep(w, [workers[w] EXCEPT !.pc = "communicate", !.process = "running",
                                             !.attempts = @ + 1],
                       signal_queue, cache)

(* communicate(timeout=30) returns: the renderer exited by itself with one *)
(* of the outcomes, or it was killed by cancel().  A timeout and a         *)
(* non-zero exit (a kill included) raise into the except clause.           *)
Outcomes == {"ok", "empty", "nonzero", "timeout"}

run_communicate(w) ==
    /\ workers[w].pc = "communicate"
    /\ IF workers[w].process = "killed"
       THEN WorkerStep(w, [workers[w] EXCEPT !.pc = "except", !.outcome = "killed"],
                       signal_queue, cache)
       ELSE \E r \in Outcomes :
               WorkerStep(w, [workers[w] EXCEPT
                                 !.pc = IF r \in {"ok", "empty"} THEN "verify" ELSE "except",
                                 !.process = "exited", !.outcome = r],
                          signal_queue,
                          IF r = "ok" THEN cache \cup {OutputPath(w)} ELSE cache)

(* A run() that takes exit code 0 for success without looking at the      *)
(* output file.                                                            *)
run_verify_trusting_exit_code(w) ==
    /\ workers[w].pc = "verify"
    /\ IF workers[w].is_cancelled
       THEN run_finally(w, workers[w], signal_queue)
       ELSE WorkerStep(w, [workers[w] EXCEPT !.pc = "emit_ready"], signal_queue, cache)

(* returncode 0: does the output exist, non-empty?  In both branches the   *)
(* signal is guarded by: if not self.is_cancelled                          *)
run_verify(w) ==
    /\ workers[w].pc = "verify"
    /\ IF workers[w].is_cancelled
       THEN run_finally(w, workers[w], signal_queue)
       ELSE WorkerStep(w, [workers[w] EXCEPT !.pc =
                              IF OutputPath(w) \in cache THEN "emit_ready"
                              ELSE "handle_failure"],
                       signal_queue, cache)

(* except (CalledProcessError, TimeoutExpired): if not self.is_cancelled   *)
run_except(w) ==
    /\ workers[w].pc = "except"
    /\ IF workers[w].is_cancelled
       THEN run_finally(w, workers[w], signal_queue)
       ELSE WorkerStep(w, [workers[w] EXCEPT !.pc = "handle_failure"],
                       signal_queue, cache)

(* self.signals.preview_ready.emit(...), then the finally clause           *)
run_emit_ready(w) ==
    /\ workers[w].pc = "emit_ready"
    /\ run_finally(w, [workers[w] EXCEPT !.emitted = "preview_ready"], signal_queue)

(* _handle_preview_failure: a fresh worker with retry_count + 1, or the    *)
(* terminal preview_failed; then the finally clause of run().              *)
(* Mutant: off by one in the retry limit. *)
should_retry_inclusive(worker) == worker.retry_count <= worker.max_retries

should_retry(worker) == worker.retry_count < worker.max_retries

handle_preview_failure(w) ==
    /\ workers[w].pc = "handle_failure"
    /\ last_ready' = {}
    /\ cache' = cache
    /\ IF should_retry(workers[w])
       THEN LET me == workers[w]
                retry_worker ==
                    PreviewWorker(me.cli_path,
                                  Job(me.rel_path, me.image_type, me.xmp_file_path,
                                      me.history_hash),
                                  me.preview_width, me.retry_count + 1, me.max_retries,
                                  me.attempts, me.stale)
            IN /\ CanPost(2)
               /\ Cardinality(DOMAIN workers) < MaxWorkers
               /\ workers' = Put([workers EXCEPT
                                     ![w].pc = "done", ![w].process = "None",
                                     ![w].run_temp_dir = "removed",
                                     ![w].outcome = "None",
                                     ![w].emitted = "preview_retry_requested",
                                     ![w].job_finished = @ + 1],
                                 NewId(workers), retry_worker)
               /\ signal_queue' = Emit(Emit(signal_queue, "preview_retry_requested",
                                            NewId(workers)),
                                       "job_finished", w)
       ELSE /\ CanPost(1)
            /\ workers' = [workers EXCEPT
                              ![w].pc = "done", ![w].process = "None",
                              ![w].run_temp_dir = "removed",
                              ![w].outcome = "None",
                              ![w].emitted = "preview_failed",
                              ![w].job_finished = @ + 1]
            /\ signal_queue' = Emit(signal_queue, "job_finished", w)
    /\ UNCHANGED <<mgr_settings, diff_files, mgr_jobs, pool_queue, retry_timers>>

(* What on_job_finished emits with the counters it has just updated:       *)
(* cache_progress_updated(completed_jobs, total_jobs) always (line 445),   *)
(* cache_generation_finished when completed_jobs >= total_jobs (451-452).  *)
cache_progress_updated(completed, total) == [current |-> completed, total |-> total]
cache_generation_finished(completed, total) == completed >= total

(***************************************************************************)
(* Slots of the manager, run on the main thread for the oldest queued      *)
(* signal.                                                                 *)
(***************************************************************************)
on_job_finished ==
    /\ signal_queue # <<>>
    /\ Head(signal_queue).sig = "job_finished"
    /\ LET w == Head(signal_queue).w
           job_key == WorkerKey(w)
           removed == IF job_key \in DOMAIN active_jobs
                      THEN Drop(active_jobs, job_key) ELSE active_jobs
           st == process_pending_jobs([Queues EXCEPT !.active = removed])
       IN Commit([st EXCEPT !.workers = Release(st.workers, w, Tail(signal_queue))])
    /\ completed_jobs' = completed_jobs + 1
    /\ signal_queue' = Tail(signal_queue)
    /\ last_ready' = {}
    /\ UNCHANGED <<mgr_settings, diff_files, total_jobs, retry_timers, cache>>

(* QTimer.singleShot(1000, lambda: self.thread_pool.start(retry_worker))   *)
on_preview_retry_requested ==
    /\ signal_queue # <<>>
    /\ Head(signal_queue).sig = "preview_retry_requested"
    /\ retry_timers' = Append(retry_timers, Head(signal_queue).w)
    /\ workers' = [workers EXCEPT ![Head(signal_queue).w].pc = "timer"]
    /\ signal_queue' = Tail(signal_queue)
    /\ last_ready' = {}
    /\ UNCHANGED <<mgr_settings, diff_files, mgr_jobs, pool_queue, cache>>

(* The delay elapsed: thread_pool.start(retry_worker).                     *)
retry_timer_fired ==
    /\ retry_timers # <<>>
    /\ pool_queue' = Append(pool_queue, Head(retry_timers))
    /\ workers' = [workers EXCEPT ![Head(retry_timers)].pc = "queued"]
    /\ retry_timers' = Tail(retry_timers)
    /\ last_ready' = {}
    /\ UNCHANGED <<mgr_settings, diff_files, mgr_jobs, signal_queue, cache>>

(***************************************************************************)
(* The system.                                                             *)
(***************************************************************************)
(* A call of the UI into the manager, for the files of the set given. *)
UICall(files) ==
    \/ \E order \in UNION {Orders(S) : S \in SUBSET files} :
          /\ set_diff_files(order)
          /\ last_call' = Call("set_diff_files", order, "")
    \/ \E f \in files :
          /\ infer_raw_file_path(f) # NoRaw
          /\ request_preview_generation(f)
          /\ last_call' = Call("request_preview_generation", f, "")
    \/ \E f \in files, side \in Sides :
          /\ infer_raw_file_path(f) # NoRaw
          /\ request_single_preview_generation(f, side)
          /\ last_call' = Call("request_single_preview_generation", f, side)
    \/ /\ cancel_all_jobs
       /\ last_call' = Call("cancel_all_jobs", "", "")
    \/ /\ \E t \in 1..MaxThreadSetting :
             update_settings(darktable_cli_path, preview_max_dimension, t)
       /\ last_call' = Call("update_settings", "", "")
    \/ \E outcome \in rmtree(cache, cache
                               \ clear_cache_for_dimension_in(cache, preview_max_dimension)) :
          /\ clear_cache_for_dimension(preview_max_dimension, outcome)
          /\ last_call' = Call("clear_cache_for_dimension", "",
                                Cleared(cache, preview_max_dimension, outcome))
    \/ \E outcome \in rmtree(cache, cache) :
          /\ clear_all_caches(outcome)
          /\ last_call' = Call("clear_all_caches", "", Cleared(cache, 0, outcome))

(* A step of the pool, of a worker thread, or of the main thread's event   *)
(* loop.                                                                   *)
Background ==
    \/ \E w \in WorkerIds : pool_dispatch(w)
    \/ \E w \in WorkerIds : run_check_cancelled(w)
    \/ \E w \in WorkerIds : run_use_cached(w)
    \/ \E w \in WorkerIds : run_launch(w)
    \/ \E w \in WorkerIds : run_communicate(w)
    \/ \E w \in WorkerIds : run_verify(w)
    \/ \E w \in WorkerIds : run_except(w)
    \/ \E w \in WorkerIds : run_emit_ready(w)
    \/ \E w \in WorkerIds : handle_preview_failure(w)
    \/ on_job_finished
    \/ on_preview_retry_requested
    \/ retry_timer_fired

Next ==
    \/ /\ ui_calls < MaxCalls /\ ui_calls' = ui_calls + 1 /\ UICall(Selectable)
       /\ UNCHANGED <<scanner, tree, xmp, locking, disk>>
    \/ /\ ui_calls' = ui_calls /\ last_call' = NoCall /\ Background
       /\ UNCHANGED <<scanner, tree, xmp, locking, disk>>

Spec == Init /\ [][Next]_vars

(***************************************************************************)
(* The manager under every configuration: the renderer path unset, invalid *)
(* or valid, either preview dimension, previews of an earlier run on disk; *)
(* one file is scanned, selected, refreshed, and the settings are edited.  *)
(***************************************************************************)
Refreshed == {"b.xmp"}

EarlierCache ==
    {<<d, <<"hash", "A">>, "session">> : d \in Dimensions}
    \cup {<<DefaultDimension, <<"hash", "B">>, "archive">>}

InitSettings ==
    /\ darktable_cli_path \in CliPaths
    /\ preview_max_dimension \in Dimensions
    /\ max_threads = 1
    /\ pool_max = max_threads
    /\ diff_files = <<>>
    /\ pending_jobs = <<>>
    /\ active_jobs = <<>>
    /\ completed_jobs = 0
    /\ total_jobs = 0
    /\ workers = <<>>
    /\ pool_queue = <<>>
    /\ retry_timers = <<>>
    /\ signal_queue = <<>>
    /\ cache \in SUBSET EarlierCache
    /\ last_ready = {}
    /\ ui_calls = 0
    /\ last_call = NoCall
    /\ scanner = ScannerWorker
    /\ tree = <<>>
    /\ xmp = <<>>
    /\ locking = <<>>
    /\ disk = <<>>

UICallSettings ==
    \/ \E order \in Orders(Refreshed) :
          /\ set_diff_files(order)
          /\ last_call' = Call("set_diff_files", order, "")
    \/ \E f \in Refreshed :
          /\ infer_raw_file_path(f) # NoRaw
          /\ request_preview_generation(f)
          /\ last_call' = Call("request_preview_generation", f, "")
    \/ \E f \in Refreshed :
          /\ f \in DOMAIN diff_files
          /\ clear_cache_for_file(f)
          /\ last_call' = Call("clear_cache_for_file", f, cache \ cache')
    \/ \E cli_path \in CliPaths, dimension \in Dimensions :
          /\ update_settings(cli_path, dimension, max_threads)
          /\ last_call' = Call("update_settings", "", "")
    \/ \E dimension \in Dimensions :
          \E outcome \in rmtree(cache, cache \ clear_cache_for_dimension_in(cache, dimension)) :
             /\ clear_cache_for_dimension(dimension, outcome)
             /\ last_call' = Call("clear_cache_for_dimension", "",
                                   Cleared(cache, dimension, outcome))
    \/ \E outcome \in rmtree(cache, cache) :
          /\ clear_all_caches(outcome)
          /\ last_call' = Call("clear_all_caches", "", Cleared(cache, 0, outcome))

NextSettings ==
    \/ /\ ui_calls < MaxCalls /\ ui_calls' = ui_calls + 1 /\ UICallSettings
       /\ UNCHANGED <<scanner, tree, xmp, locking, disk>>
    \/ /\ ui_calls' = ui_calls /\ last_call' = NoCall /\ Background
       /\ UNCHANGED <<scanner, tree, xmp, locking, disk>>

SpecSettings == InitSettings /\ [][NextSettings]_vars

(* One scan result holding both files, rendered in the background, and    *)
(* one file selected by the user while the rendering goes on.              *)
NextShared ==
    \/ /\ ui_calls = 0
       /\ ui_calls' = ui_calls + 1
       /\ \E order \in Orders(Shared) :
             /\ set_diff_files(order)
             /\ last_call' = Call("set_diff_files", order, "")
       /\ UNCHANGED <<scanner, tree, xmp, locking, disk>>
    \/ /\ ui_calls = 1
       /\ ui_calls' = ui_calls + 1
       /\ \E f \in Shared :
             /\ request_preview_generation(f)
             /\ last_call' = Call("request_preview_generation", f, "")
       /\ UNCHANGED <<scanner, tree, xmp, locking, disk>>
    \/ /\ ui_calls' = ui_calls /\ last_call' = NoCall /\ Background
       /\ UNCHANGED <<scanner, tree, xmp, locking, disk>>

SpecShared == Init /\ [][NextShared]_vars

(***************************************************************************)
(* The scanner (scanner.py).  A sidecar is modelled by what                *)
(* extract_darktable_data returns for it: a record of its top-level hashes *)
(* and its history, or Corrupt when the extraction raises.  A sidecar of   *)
(* the archive tree may also be Absent.                                    *)
(***************************************************************************)
ScanFiles == {"a.xmp", "b.xmp"}
NoRecord(why) ==
    [history_auto_hash |-> why, history_current_hash |-> why, history |-> why]
Corrupt == NoRecord("corrupt")
Absent == NoRecord("absent")

SidecarRecords ==
    [history_auto_hash : {NoHash, "A"}, history_current_hash : {"A", "B"},
     history : {"h1", "h2"}]

Trees ==
    UNION {[S -> [session : SidecarRecords \cup {Corrupt},
                  archive : SidecarRecords \cup {Corrupt, Absent}]] :
           S \in SUBSET ScanFiles}

(* A scanner that takes no sidecar for unedited.                           *)
unedited_never(session_data) == FALSE

(* scanner.py:172-175: the session sidecar carries no edit of the user.    *)
unedited(session_data) ==
    /\ session_data.history_auto_hash # NoHash
    /\ session_data.history_auto_hash = session_data.history_current_hash

(* A comparison of the edit histories alone.                               *)
differ_by_history(session_data, archive_data) ==
    session_data.history # archive_data.history

(* scanner.py:182: the comparison of the two extracted records.            *)
differ(session_data, archive_data) == session_data # archive_data

emit(w, signal) == [w EXCEPT !.signals = Append(@, signal)]

extract_darktable_data(w, side, f) == [w EXCEPT !.extracted = @ \cup {<<side, f>>}]

(* A run() that ends without a word when it was stopped.                   *)
scan_finished_unless_stopped(w, state) ==
    IF state = "Cancelled" THEN [w EXCEPT !.pc = state]
    ELSE [emit(emit(w, <<"scan_finished", "">>), <<"finished", "">>) EXCEPT !.pc = state]

(* The two emissions that end run(), on each of its three ways out.        *)
scan_finished(w, state) ==
    [emit(emit(w, <<"scan_finished", "">>), <<"finished", "">>) EXCEPT !.pc = state]

(* A loop body whose exception ends the loop: no later sidecar is read.    *)
scan_file_aborting(w, f) ==
    LET next == [w EXCEPT !.i = w.i + 1]
        progress(x) == emit(x, <<"scan_progress", f>>)
        s1 == extract_darktable_data(next, "session", f)
        s2 == extract_darktable_data(s1, "archive", f)
        abort(x) == [x EXCEPT !.i = Len(w.xmp_files_to_scan)]
    IN  IF tree[f].archive = Absent THEN progress(next)
        ELSE IF tree[f].session = Corrupt THEN abort(s1)
        ELSE IF unedited(tree[f].session) THEN s1
        ELSE IF tree[f].archive = Corrupt THEN abort(s2)
        ELSE IF differ(tree[f].session, tree[f].archive)
             THEN progress(emit(s2, <<"file_diff_found", f>>))
        ELSE progress(s2)

(* One pass of the loop body for the sidecar f (scanner.py:162-193).  The  *)
(* continue of the unedited case skips the progress emission as well.      *)
scan_file(w, f) ==
    LET next == [w EXCEPT !.i = w.i + 1]
        progress(x) == emit(x, <<"scan_progress", f>>)
        s1 == extract_darktable_data(next, "session", f)
        s2 == extract_darktable_data(s1, "archive", f)
    IN  IF tree[f].archive = Absent THEN progress(next)
        ELSE IF tree[f].session = Corrupt THEN progress(s1)
        ELSE IF unedited(tree[f].session) THEN s1
        ELSE IF tree[f].archive = Corrupt THEN progress(s2)
        ELSE IF differ(tree[f].session, tree[f].archive)
             THEN progress(emit(s2, <<"file_diff_found", f>>))
        ELSE progress(s2)

(* QThread.started -> ScannerWorker.run (app_ui.py:470-497).               *)
scanner_start ==
    /\ scanner.pc = "Idle"
    /\ scanner' = [scanner EXCEPT !.pc = "walk"]

(* scanner.py:147-158: the enumeration, in the order os.walk yields, or    *)
(* its exception handler.                                                   *)
scanner_walk ==
    /\ scanner.pc = "walk"
    /\ \/ \E order \in Orders(DOMAIN tree) :
             scanner' = [scanner EXCEPT !.pc = "loop", !.xmp_files_to_scan = order]
       \/ scanner' = scan_finished(scanner, "Finished")

(* A loop head that never looks at the flag.                               *)
stop_requested_never(w) == FALSE

(* scanner.py:163: the test of the flag at the head of an iteration.       *)
stop_requested(w) == ~w.is_running

(* scanner.py:162-164, 195-196: the head of one iteration of the loop: the *)
(* end of run() when the list is exhausted or the flag is cleared,         *)
(* otherwise the next sidecar is taken up.                                 *)
scanner_iterate ==
    /\ scanner.pc = "loop"
    /\ scanner' =
         IF scanner.i = Len(scanner.xmp_files_to_scan)
         THEN scan_finished(scanner, "Finished")
         ELSE IF stop_requested(scanner)
         THEN scan_finished(scanner, "Cancelled")
         ELSE [scanner EXCEPT !.pc = "file"]

(* scanner.py:166-193: the body of the iteration, which does not look at   *)
(* the flag.                                                               *)
scanner_process ==
    /\ scanner.pc = "file"
    /\ scanner' = [scan_file(scanner, scanner.xmp_files_to_scan[scanner.i + 1])
                       EXCEPT !.pc = "loop"]

(* ScannerWorker.stop, called by the UI thread (app_ui.py:423, 657).       *)
scanner_stop ==
    /\ scanner.is_running
    /\ scanner' = [scanner EXCEPT !.is_running = FALSE]

InitScanner ==
    /\ darktable_cli_path = "darktable-cli"
    /\ preview_max_dimension = DefaultDimension
    /\ max_threads = 1
    /\ diff_files = <<>>
    /\ pending_jobs = <<>>
    /\ active_jobs = <<>>
    /\ completed_jobs = 0
    /\ total_jobs = 0
    /\ workers = <<>>
    /\ pool_queue = <<>>
    /\ pool_max = 1
    /\ retry_timers = <<>>
    /\ signal_queue = <<>>
    /\ cache = {}
    /\ last_ready = {}
    /\ ui_calls = 0
    /\ last_call = NoCall
    /\ scanner = ScannerWorker
    /\ tree \in Trees
    /\ xmp = <<>>
    /\ locking = <<>>
    /\ disk = <<>>

ScannerThread ==
    /\ scanner_start \/ scanner_walk \/ scanner_iterate \/ scanner_process
    /\ UNCHANGED <<manager_vars, tree, xmp, locking, disk>>

NextScanner ==
    \/ ScannerThread
    \/ scanner_stop /\ UNCHANGED <<manager_vars, tree, xmp, locking, disk>>

(* The scanner's thread is started and keeps running: weak fairness of its *)
(* steps.  Nothing obliges the UI to call stop.                            *)
SpecScanner == InitScanner /\ [][NextScanner]_vars /\ WF_vars(ScannerThread)

(***************************************************************************)
(* extract_darktable_data as a function of the sidecar document            *)
(* (scanner.py:34-130).  A document is what lxml hands to the function:    *)
(* the attributes of the rdf:Description node in document order, each with *)
(* the namespace and local name of its QName, and the child elements       *)
(* masks_history, history and subject with their rdf:li items in document  *)
(* order.  mask_points and tag texts are numbers standing for strings in   *)
(* their lexicographic order.                                              *)
(***************************************************************************)
(* An ignore list that lacks history_end.                                  *)
IGNORED_TIMESTAMPS_ONLY ==
    {"import_timestamp", "export_timestamp", "change_timestamp", "print_timestamp"}

IGNORED_DT_ATTRS ==
    {"import_timestamp", "export_timestamp", "change_timestamp",
     "print_timestamp", "history_end"}

HashAttrs == {"history_auto_hash", "history_current_hash"}

DarktableNs == "http://darktable.sf.net/"
XmpNs == "http://ns.adobe.com/xap/1.0/"
NoNamespace == "None"

Attr(ns, name, value) == [namespace |-> ns, localname |-> name, value |-> value]

(* The empty record: no attribute, no tag, no history step.                *)
EmptyRecord ==
    [top_level_attrs |-> [n \in {} |-> ""],
     tags |-> <<>>,
     history |-> [n \in {} |-> ""]]

(* A dict that survives from the previous call.                            *)
leftover_data == xmp.leftover

(* scanner.py:35: the dict every call starts from.                         *)
fresh_data == EmptyRecord

(* A list left in document order.                                          *)
unsorted(seq) == seq

(* list.sort() / sorted().                                                 *)
sorted(seq) == SortSeq(seq, LAMBDA a, b : a < b)

RECURSIVE sorted_set(_)
sorted_set(S) ==
    IF S = {} THEN <<>>
    ELSE LET least == CHOOSE x \in S : \A y \in S : x <= y
         IN  <<least>> \o sorted_set(S \ {least})

(* scanner.py:58-68: what the two tests of the attribute loop store.       *)
kept(a) ==
    /\ a.namespace = DarktableNs
    /\ \/ a.localname \notin IGNORED_DT_ATTRS
       \/ a.localname \in HashAttrs

(* scanner.py:55-70: the loop over the attributes, later ones overwriting. *)
top_level_attrs(attrs) ==
    LET at(n) == {i \in DOMAIN attrs : kept(attrs[i]) /\ attrs[i].localname = n}
        last(n) == CHOOSE i \in at(n) : \A j \in at(n) : j <= i
    IN  [n \in {attrs[i].localname : i \in {j \in DOMAIN attrs : kept(attrs[j])}} |->
            attrs[last(n)].value]

(* The rdf:li items of all children of one name, in document order.        *)
RECURSIVE items_of(_, _)
items_of(children, name) ==
    IF children = <<>> THEN <<>>
    ELSE (IF Head(children).localname = name THEN Head(children).items ELSE <<>>)
         \o items_of(Tail(children), name)

(* An attribute that is absent or empty: `if num and points` skips the     *)
(* item.  The empty string sorts before every other.                       *)
NoPoints == 0
NoNum == ""

(* Mutant: the masks of every number are attached to each step.            *)
masks_by_any_num(children, num) ==
    LET all == items_of(children, "masks_history")
        mine == SelectSeq(all, LAMBDA li : li.mask_num # NoNum /\ li.mask_points # NoPoints)
    IN  sorted([k \in DOMAIN mine |-> mine[k].mask_points])

(* scanner.py:82-99, 124-125: the mask points of one step, sorted.         *)
masks_by_num(children, num) ==
    LET all == items_of(children, "masks_history")
        mine == SelectSeq(all, LAMBDA li : /\ li.mask_num # NoNum /\ li.mask_points # NoPoints
                                           /\ li.mask_num = num)
    IN  sorted([k \in DOMAIN mine |-> mine[k].mask_points])

(* scanner.py:101-117, 126-128: the steps keyed by num, later ones         *)
(* overwriting, each with its masks.                                       *)
history_items(children) ==
    LET all == items_of(children, "history")
        at(n) == {i \in DOMAIN all : all[i].num = n}
        last(n) == CHOOSE i \in at(n) : \A j \in at(n) : j <= i
    IN  [n \in {all[i].num : i \in DOMAIN all} |->
            [num |-> n,
             operation |-> all[last(n)].operation,
             params |-> all[last(n)].params,
             masks |-> masks_by_num(children, n)]]

(* scanner.py:119-122, 129: the tags, deduplicated and sorted.             *)
tags_of(children) ==
    LET all == items_of(children, "subject")
    IN  sorted_set({all[i].text : i \in DOMAIN all})

Returned(data) == [called |-> TRUE, raised |-> FALSE, data |-> data]
RaisedTypeError == [called |-> TRUE, raised |-> TRUE, data |-> EmptyRecord]
NotExtracted == [called |-> FALSE, raised |-> FALSE, data |-> EmptyRecord]

(* scanner.py:34-130.  An unreadable file (IOError) and unparseable        *)
(* content (XMLSyntaxError) return the dict as initialised.  For an        *)
(* attribute without a namespace QName.namespace is None and               *)
(* `"darktable" in qname.namespace` raises TypeError, which the            *)
(* `except ValueError` of the loop does not catch.                         *)
extract_record(doc, data) ==
    IF doc.status \in {"unreadable", "unparseable"} THEN Returned(data)
    ELSE IF \E i \in DOMAIN doc.attrs : doc.attrs[i].namespace = NoNamespace
    THEN RaisedTypeError
    ELSE Returned([top_level_attrs |-> top_level_attrs(doc.attrs) @@ data.top_level_attrs,
                   tags |-> tags_of(doc.children),
                   history |-> history_items(doc.children) @@ data.history])

(***************************************************************************)
(* The sidecars the extraction is applied to: a session sidecar and the    *)
(* archive sidecar, which starts as a copy of it and is then rewritten.    *)
(***************************************************************************)
MaxWrites == 2
MaxExtractions == 3

Opt(present, a) == IF present THEN <<a>> ELSE <<>>

AttrLists ==
    {<<Attr(DarktableNs, "history_current_hash", "A")>>
       \o Opt(auto, Attr(DarktableNs, "history_auto_hash", "A"))
       \o Opt(stamp, Attr(DarktableNs, "change_timestamp", "1"))
       \o Opt(other = "xmp", Attr(XmpNs, "Rating", "1"))
       \o Opt(other = "plain", Attr(NoNamespace, "about", "")) :
     auto \in BOOLEAN, stamp \in BOOLEAN, other \in {"", "xmp", "plain"}}

Edited ==
    <<[localname |-> "masks_history",
       items |-> <<[mask_num |-> "3", mask_points |-> 2],
                   [mask_num |-> "3", mask_points |-> 1]>>],
      [localname |-> "history",
       items |-> <<[num |-> "3", operation |-> "exposure", params |-> "p1"],
                   [num |-> "10", operation |-> "crop", params |-> "p1"]>>],
      [localname |-> "subject",
       items |-> <<[text |-> 2], [text |-> 1], [text |-> 2]>>]>>

Docs ==
    {[status |-> "xml", attrs |-> a, children |-> c] :
        a \in AttrLists, c \in {<<>>, Edited}}
    \cup {[status |-> st, attrs |-> <<>>, children |-> <<>>] :
            st \in {"unreadable", "unparseable"}}

(* The fields darktable rewrites without an edit of the user.              *)
VolatileFields ==
    {"import_timestamp", "export_timestamp", "change_timestamp",
     "print_timestamp", "history_end"}

Swap(seq, i, j) ==
    [k \in DOMAIN seq |-> IF k = i THEN seq[j] ELSE IF k = j THEN seq[i] ELSE seq[k]]

set_attr(attrs, n, v) ==
    LET rest == SelectSeq(attrs,
                    LAMBDA a : ~(a.namespace = DarktableNs /\ a.localname = n))
    IN  IF v = "absent" THEN rest
        ELSE IF Len(rest) = Len(attrs) THEN Append(attrs, Attr(DarktableNs, n, v))
        ELSE [k \in DOMAIN attrs |->
                IF attrs[k].namespace = DarktableNs /\ attrs[k].localname = n
                THEN Attr(DarktableNs, n, v) ELSE attrs[k]]

write(doc, kind) ==
    /\ xmp.writes < MaxWrites
    /\ xmp.archive.status = "xml"
    /\ doc # xmp.archive
    /\ xmp' = [xmp EXCEPT !.archive = doc, !.archive_data = NotExtracted,
                          !.edits = @ \cup {kind}, !.writes = @ + 1]

(* darktable touches a volatile field of the archive sidecar.              *)
write_volatile ==
    \E n \in VolatileFields, v \in {"absent", "1", "2"} :
        write([xmp.archive EXCEPT !.attrs = set_attr(@, n, v)], "volatile")

(* The archive sidecar is written with two attributes, two children or two *)
(* items of one child in the other order.                                  *)
write_reordered ==
    \/ \E i, j \in DOMAIN xmp.archive.attrs :
          write([xmp.archive EXCEPT !.attrs = Swap(@, i, j)], "order")
    \/ \E i, j \in DOMAIN xmp.archive.children :
          write([xmp.archive EXCEPT !.children = Swap(@, i, j)], "order")
    \/ \E c \in DOMAIN xmp.archive.children :
          \E i, j \in DOMAIN xmp.archive.children[c].items :
             write([xmp.archive EXCEPT !.children[c].items = Swap(@, i, j)], "order")

(* The archive sidecar gets another edit: hash, parameters, mask or tag.   *)
write_content ==
    \/ write([xmp.archive EXCEPT !.attrs = set_attr(@, "history_current_hash", "B")],
             "content")
    \/ \E c \in DOMAIN xmp.archive.children :
          LET child == xmp.archive.children[c]
              more == CASE child.localname = "masks_history" ->
                              [mask_num |-> "3", mask_points |-> 3]
                        [] child.localname = "history" ->
                              [num |-> "4", operation |-> "crop", params |-> "p2"]
                        [] OTHER -> [text |-> 3]
          IN  write([xmp.archive EXCEPT !.children[c].items = Append(@, more)],
                    "content")

(* The archive sidecar gets a mask item that belongs to no history step,   *)
(* or one that lacks its number or its points.                             *)
StrayMasks ==
    {[mask_num |-> "7", mask_points |-> 3],
     [mask_num |-> NoNum, mask_points |-> 3],
     [mask_num |-> "3", mask_points |-> NoPoints]}

write_stray_mask ==
    \E c \in DOMAIN xmp.archive.children, more \in StrayMasks :
        /\ xmp.archive.children[c].localname = "masks_history"
        /\ write([xmp.archive EXCEPT !.children[c].items = Append(@, more)], "stray")

(* One call of extract_darktable_data on the session sidecar.              *)
extract_session ==
    /\ xmp.calls < MaxExtractions
    /\ LET r == extract_record(xmp.session, fresh_data)
       IN  xmp' = [xmp EXCEPT !.session_data = r,
                              !.first_data = IF @.called THEN @ ELSE r,
                              !.leftover = r.data,
                              !.log = Append(@, "session"),
                              !.calls = @ + 1]

(* One call of extract_darktable_data on the archive sidecar.              *)
extract_archive ==
    /\ xmp.calls < MaxExtractions
    /\ LET r == extract_record(xmp.archive, fresh_data)
       IN  xmp' = [xmp EXCEPT !.archive_data = r,
                              !.leftover = r.data,
                              !.log = Append(@, "archive"),
                              !.calls = @ + 1]

InitExtract ==
    /\ darktable_cli_path = "darktable-cli"
    /\ preview_max_dimension = DefaultDimension
    /\ max_threads = 1
    /\ diff_files = <<>>
    /\ pending_jobs = <<>>
    /\ active_jobs = <<>>
    /\ completed_jobs = 0
    /\ total_jobs = 0
    /\ workers = <<>>
    /\ pool_queue = <<>>
    /\ pool_max = 1
    /\ retry_timers = <<>>
    /\ signal_queue = <<>>
    /\ cache = {}
    /\ last_ready = {}
    /\ ui_calls = 0
    /\ last_call = NoCall
    /\ scanner = ScannerWorker
    /\ tree = <<>>
    /\ locking = <<>>
    /\ disk = <<>>
    /\ xmp \in {[session |-> d, archive |-> d, edits |-> {}, writes |-> 0,
                 session_data |-> NotExtracted, first_data |-> NotExtracted,
                 archive_data |-> NotExtracted, leftover |-> EmptyRecord,
                 calls |-> 0, log |-> <<>>] : d \in Docs}

NextExtract ==
    \/ write_volatile /\ UNCHANGED <<manager_vars, scanner, tree, locking, disk>>
    \/ write_reordered /\ UNCHANGED <<manager_vars, scanner, tree, locking, disk>>
    \/ write_content /\ UNCHANGED <<manager_vars, scanner, tree, locking, disk>>
    \/ write_stray_mask /\ UNCHANGED <<manager_vars, scanner, tree, locking, disk>>
    \/ extract_session /\ UNCHANGED <<manager_vars, scanner, tree, locking, disk>>
    \/ extract_archive /\ UNCHANGED <<manager_vars, scanner, tree, locking, disk>>

SpecExtract == InitExtract /\ [][NextExtract]_vars

(***************************************************************************)
(* XMPDiff.get_summary (xmp_diff.py:40-80) over two extracted records.     *)
(***************************************************************************)
Steps == {"3", "4", "10"}

(* int(x) for the step keys of the model; all of them satisfy isdigit().   *)
StepInt(x) == CASE x = "3" -> 3 [] x = "4" -> 4 [] x = "10" -> 10

(* The rank of the key as a string: "10" < "3" < "4".                      *)
step_key_as_text(x) == CASE x = "10" -> 1 [] x = "3" -> 2 [] x = "4" -> 3

(* xmp_diff.py:48: key=lambda x: int(x) if x.isdigit() else x.             *)
step_key(x) == StepInt(x)

RECURSIVE sorted_keys(_)
sorted_keys(S) ==
    IF S = {} THEN <<>>
    ELSE LET least == CHOOSE x \in S : \A y \in S : step_key(x) <= step_key(y)
         IN  <<least>> \o sorted_keys(S \ {least})

(* xmp_diff.py:49-75: the entry of one step.  A module_info is never an    *)
(* empty dict (it always has its masks), so its truth is its presence.     *)
step_diff(session_history, archive_history, key) ==
    LET s == key \in DOMAIN session_history
        a == key \in DOMAIN archive_history
    IN  [step |-> key,
         module |-> IF s THEN session_history[key].operation
                    ELSE archive_history[key].operation,
         added |-> s /\ ~a,
         removed |-> ~s /\ a,
         params |-> s /\ a /\ session_history[key].params # archive_history[key].params,
         mask |-> s /\ a /\ session_history[key].masks # archive_history[key].masks]

get_summary(session_data, archive_data) ==
    LET session_history == session_data.history
        archive_history == archive_data.history
        keys == sorted_keys(DOMAIN session_history \cup DOMAIN archive_history)
        all == [i \in DOMAIN keys |-> step_diff(session_history, archive_history, keys[i])]
    IN  SelectSeq(all, LAMBDA d : d.added \/ d.removed \/ d.params \/ d.mask)

(* The histories a record can hold over three steps.                       *)
Histories ==
    UNION {[S -> [num : {"n"}, operation : {"exposure"}, params : {"p1", "p2"},
                  masks : {<<>>, <<1>>}]] : S \in SUBSET Steps}

history_of(h) == [n \in DOMAIN h |-> [h[n] EXCEPT !.num = n]]

record_of(hash, h) ==
    [top_level_attrs |-> [n \in {"history_current_hash"} |-> hash],
     tags |-> <<>>,
     history |-> history_of(h)]

(* XMPDiff.set_contents: the table is filled from get_summary.             *)
set_contents ==
    /\ ~xmp.shown
    /\ xmp' = [xmp EXCEPT !.shown = TRUE,
                          !.summary = get_summary(xmp.session_data, xmp.archive_data)]

InitSummary ==
    /\ darktable_cli_path = "darktable-cli"
    /\ preview_max_dimension = DefaultDimension
    /\ max_threads = 1
    /\ diff_files = <<>>
    /\ pending_jobs = <<>>
    /\ active_jobs = <<>>
    /\ completed_jobs = 0
    /\ total_jobs = 0
    /\ workers = <<>>
    /\ pool_queue = <<>>
    /\ pool_max = 1
    /\ retry_timers = <<>>
    /\ signal_queue = <<>>
    /\ cache = {}
    /\ last_ready = {}
    /\ ui_calls = 0
    /\ last_call = NoCall
    /\ scanner = ScannerWorker
    /\ tree = <<>>
    /\ locking = <<>>
    /\ disk = <<>>
    /\ xmp \in {[session_data |-> record_of("A", s), archive_data |-> record_of("B", a),
                 shown |-> FALSE, summary |-> <<>>] : s \in Histories, a \in Histories}

NextSummary == set_contents /\ UNCHANGED <<manager_vars, scanner, tree, locking, disk>>

SpecSummary == InitSummary /\ [][NextSummary]_vars

(***************************************************************************)
(* The manager's mutex.  Here a manager method is not one step: every      *)
(* `with QMutexLocker(self.mutex)` block is entered by one step (acquire)  *)
(* and executed and left by another, and the statements between two blocks *)
(* are points where other threads can run.  The methods are                *)
(* request_single_preview_generation for a preview that is not cached      *)
(* (is_job_scheduled, the insertion, process_pending_jobs) and the slot    *)
(* on_job_finished; a worker's run() is a single step ending in            *)
(* job_finished.                                                           *)
(***************************************************************************)
MaxRequests == 3

Threads == {"main", "pool"}

(* A slot that runs in the thread of the emitter, as a direct connection   *)
(* would have it.                                                          *)
slot_thread_of_emitter == "pool"

(* preview_cache_manager.py:62: job_finished is connected to the bound     *)
(* method of the manager with the default connection type; the manager     *)
(* lives in the main thread and the workers emit from pool threads, so the *)
(* call is queued and the slot runs from the main thread's event loop.     *)
slot_thread == "main"

Position(pc, key) == [pc |-> pc, locked |-> FALSE, key |-> key]
Idle == Position("idle", <<"", "">>)
At(t) == locking.at[t]

(* QMutexLocker.__enter__                                                  *)
acquire(t) ==
    /\ At(t).pc # "idle"
    /\ ~At(t).locked
    /\ locking.mutex = "None"
    /\ locking' = [locking EXCEPT !.mutex = t, !.at[t].locked = TRUE]
    /\ UNCHANGED <<mgr_settings, diff_files, mgr_jobs, workers, pool_queue,
                   retry_timers, signal_queue, cache, last_ready, ui_calls, last_call>>

(* A block that does not release the mutex at its end.                     *)
Leave_holding(t, next) ==
    /\ At(t).locked
    /\ locking.mutex = t
    /\ locking' = [locking EXCEPT !.at[t] = next]

(* The body of a block has run: the mutex is released and the thread moves *)
(* on.                                                                     *)
Leave(t, next) ==
    /\ At(t).locked
    /\ locking.mutex = t
    /\ locking' = [locking EXCEPT !.mutex = "None", !.at[t] = next]

(* The UI calls request_single_preview_generation (main thread, from the   *)
(* event loop); lines 211-219 pass: the path is set, nothing is cached.    *)
call_request(f, side) ==
    /\ At("main").pc = "idle"
    /\ locking.requests < MaxRequests
    /\ f \in DOMAIN diff_files
    /\ locking' = [locking EXCEPT !.at["main"] = Position("is_job_scheduled", <<f, side>>),
                                  !.requests = @ + 1]
    /\ UNCHANGED <<mgr_settings, diff_files, mgr_jobs, workers, pool_queue,
                   retry_timers, signal_queue, cache, last_ready, ui_calls, last_call>>

(* is_job_scheduled (367-380), called at 222.                              *)
locked_is_job_scheduled(t) ==
    /\ At(t).pc = "is_job_scheduled"
    /\ Leave(t, IF is_job_scheduled(At(t).key[1], At(t).key[2])
                THEN Idle ELSE Position("insert", At(t).key))
    /\ UNCHANGED <<mgr_settings, diff_files, mgr_jobs, workers, pool_queue,
                   retry_timers, signal_queue, cache, last_ready, ui_calls, last_call>>

(* self.pending_jobs.insert(0, job) (234-236).                             *)
locked_insert(t) ==
    /\ At(t).pc = "insert"
    /\ Leave(t, Position("process_pending_jobs", At(t).key))
    /\ LET rec == diff_files[At(t).key[1]]
           session == At(t).key[2] = "session"
       IN  pending_jobs' =
              <<Job(At(t).key[1], At(t).key[2],
                    IF session THEN rec.session_path ELSE rec.archive_path,
                    IF session THEN rec.session_hash ELSE rec.archive_hash)>>
              \o pending_jobs
    /\ UNCHANGED <<mgr_settings, diff_files, active_jobs, completed_jobs, total_jobs,
                   workers, pool_queue, retry_timers, signal_queue, cache,
                   last_ready, ui_calls, last_call>>

(* process_pending_jobs (390-416), called at 239 and 448.                  *)
locked_process_pending_jobs(t) ==
    /\ At(t).pc = "process_pending_jobs"
    /\ Leave(t, Idle)
    /\ Commit(process_pending_jobs(Queues))
    /\ UNCHANGED <<mgr_settings, diff_files, completed_jobs, total_jobs,
                   retry_timers, signal_queue, cache, last_ready, ui_calls, last_call>>

(* cancel_all_jobs (454-465) holds the manager's mutex from its first line *)
(* to its last and calls worker.cancel(), which takes the worker's own     *)
(* mutex, for every active worker in turn.                                 *)
call_cancel_all_jobs ==
    /\ At("main").pc = "idle"
    /\ locking.requests < MaxRequests
    /\ locking' = [locking EXCEPT !.at["main"] = Position("cancel_all_jobs", <<"", "">>),
                                  !.requests = @ + 1]
    /\ UNCHANGED <<mgr_settings, diff_files, mgr_jobs, workers, pool_queue,
                   retry_timers, signal_queue, cache, last_ready, ui_calls, last_call>>

(* set_diff_files (170-174) for the scan result at hand: cancel_all_jobs,  *)
(* then schedule_preview_generation, which takes the mutex anew.           *)
call_set_diff_files ==
    /\ At("main").pc = "idle"
    /\ locking.requests < MaxRequests
    /\ locking' = [locking EXCEPT
                      !.at["main"] = Position("cancel_all_jobs", <<"set_diff_files", "">>),
                      !.requests = @ + 1]
    /\ UNCHANGED <<mgr_settings, diff_files, mgr_jobs, workers, pool_queue,
                   retry_timers, signal_queue, cache, last_ready, ui_calls, last_call>>

(* schedule_preview_generation, lines 278-324 under the mutex;             *)
(* process_pending_jobs follows (328).                                     *)
locked_schedule_preview_generation(t) ==
    /\ At(t).pc = "schedule_preview_generation"
    /\ Leave(t, Position("process_pending_jobs", At(t).key))
    /\ pending_jobs' = BulkJobs(<<"a.xmp", "b.xmp">>, diff_files)
    /\ active_jobs' = <<>>
    /\ completed_jobs' = 0
    /\ total_jobs' = Len(pending_jobs')
    /\ UNCHANGED <<mgr_settings, diff_files, workers, pool_queue, retry_timers,
                   signal_queue, cache, last_ready, ui_calls, last_call>>

(* self.pending_jobs.clear(); the workers of active_jobs are next.         *)
locked_clear_pending(t) ==
    /\ At(t).pc = "cancel_all_jobs"
    /\ At(t).locked
    /\ locking.mutex = t
    /\ locking' = [locking EXCEPT
                      !.at[t].pc = "cancel_workers",
                      !.todo = {active_jobs[k] : k \in DOMAIN active_jobs}
                               \cap DOMAIN workers]
    /\ pending_jobs' = <<>>
    /\ UNCHANGED <<mgr_settings, diff_files, active_jobs, completed_jobs, total_jobs,
                   workers, pool_queue, retry_timers, signal_queue, cache,
                   last_ready, ui_calls, last_call>>

(* worker.cancel() for the next worker: waits for the worker's mutex.      *)
locked_cancel_worker(t) ==
    /\ At(t).pc = "cancel_workers"
    /\ locking.mutex = t
    /\ locking.todo # {}
    /\ LET w == CHOOSE x \in locking.todo : \A y \in locking.todo : x <= y
       IN /\ w \notin locking.held
          /\ workers' = [workers EXCEPT ![w] = cancel(@)]
          /\ locking' = [locking EXCEPT !.todo = @ \ {w}]
    /\ UNCHANGED <<mgr_settings, diff_files, mgr_jobs, pool_queue, retry_timers,
                   signal_queue, cache, last_ready, ui_calls, last_call>>

(* self.active_jobs.clear() and the counters; the mutex is released.       *)
locked_cancel_done(t) ==
    /\ At(t).pc = "cancel_workers"
    /\ locking.todo = {}
    /\ Leave(t, IF At(t).key[1] = "set_diff_files"
                THEN Position("schedule_preview_generation", At(t).key)
                ELSE Idle)
    /\ active_jobs' = <<>>
    /\ completed_jobs' = 0
    /\ total_jobs' = 0
    /\ UNCHANGED <<mgr_settings, diff_files, pending_jobs, workers, pool_queue,
                   retry_timers, signal_queue, cache, last_ready, ui_calls, last_call>>

(* run() on a pool thread.  Lines 578-582: a worker cancelled before it    *)
(* starts emits job_finished and returns.                                  *)
worker_begin(w) ==
    /\ w \in DOMAIN workers
    /\ workers[w].pc = "queued"
    /\ w \notin locking.held
    /\ pool_queue' = SelectSeq(pool_queue, LAMBDA v : v # w)
    /\ IF workers[w].is_cancelled
       THEN /\ workers' = [workers EXCEPT ![w].pc = "done", ![w].job_finished = @ + 1]
            /\ signal_queue' = Emit(signal_queue, "job_finished", w)
       ELSE /\ workers' = [workers EXCEPT ![w].pc = "run"]
            /\ signal_queue' = signal_queue
    /\ UNCHANGED <<mgr_settings, diff_files, mgr_jobs, retry_timers, cache,
                   last_ready, ui_calls, last_call, locking>>

(* Line 645: the worker takes its own mutex.                               *)
worker_lock(w) ==
    /\ w \in DOMAIN workers
    /\ workers[w].pc = "run"
    /\ w \notin locking.held
    /\ workers' = [workers EXCEPT ![w].pc = "locked"]
    /\ locking' = [locking EXCEPT !.held = @ \cup {w}]
    /\ UNCHANGED <<mgr_settings, diff_files, mgr_jobs, pool_queue, retry_timers,
                   signal_queue, cache, last_ready, ui_calls, last_call>>

(* Lines 646-656 under the worker's mutex: a cancelled worker emits        *)
(* job_finished and returns through the finally clause, any other starts   *)
(* the renderer; the mutex is released.                                    *)
worker_locked(w) ==
    /\ w \in DOMAIN workers
    /\ workers[w].pc = "locked"
    /\ locking' = [locking EXCEPT !.held = @ \ {w}]
    /\ IF workers[w].is_cancelled
       THEN /\ workers' = [workers EXCEPT ![w].pc = "finally", ![w].job_finished = @ + 1]
            /\ signal_queue' = Emit(signal_queue, "job_finished", w)
       ELSE /\ workers' = [workers EXCEPT ![w].pc = "communicate",
                                          ![w].process = "running"]
            /\ signal_queue' = signal_queue
    /\ UNCHANGED <<mgr_settings, diff_files, mgr_jobs, pool_queue, retry_timers,
                   cache, last_ready, ui_calls, last_call>>

(* The renderer has ended, or the cancelled worker has returned: the       *)
(* finally clause (695-700) takes and releases the worker's mutex and      *)
(* emits job_finished.                                                     *)
worker_run(w) ==
    /\ w \in DOMAIN workers
    /\ workers[w].pc \in {"communicate", "finally"}
    /\ w \notin locking.held
    /\ workers' = [workers EXCEPT ![w].pc = "done", ![w].process = "None",
                                  ![w].job_finished = @ + 1]
    /\ signal_queue' = Emit(signal_queue, "job_finished", w)
    /\ UNCHANGED <<mgr_settings, diff_files, mgr_jobs, pool_queue, retry_timers, cache,
                   last_ready, ui_calls, last_call, locking>>

(* The oldest job_finished is delivered: on_job_finished is entered on the *)
(* slot's thread.                                                          *)
call_on_job_finished ==
    /\ signal_queue # <<>>
    /\ Head(signal_queue).sig = "job_finished"
    /\ At(slot_thread).pc = "idle"
    /\ locking' = [locking EXCEPT !.at[slot_thread] =
                      Position("on_job_finished", WorkerKey(Head(signal_queue).w))]
    /\ signal_queue' = Tail(signal_queue)
    /\ workers' = Release(workers, Head(signal_queue).w, Tail(signal_queue))
    /\ UNCHANGED <<mgr_settings, diff_files, mgr_jobs, pool_queue, retry_timers,
                   cache, last_ready, ui_calls, last_call>>

(* on_job_finished (437-442); process_pending_jobs follows.                *)
locked_on_job_finished(t) ==
    /\ At(t).pc = "on_job_finished"
    /\ Leave(t, Position("process_pending_jobs", At(t).key))
    /\ active_jobs' = IF At(t).key \in DOMAIN active_jobs
                      THEN Drop(active_jobs, At(t).key) ELSE active_jobs
    /\ completed_jobs' = completed_jobs + 1
    /\ UNCHANGED <<mgr_settings, diff_files, pending_jobs, total_jobs, workers,
                   pool_queue, retry_timers, signal_queue, cache, last_ready,
                   ui_calls, last_call>>

InitMutex ==
    /\ darktable_cli_path = "darktable-cli"
    /\ preview_max_dimension = DefaultDimension
    /\ max_threads = 1
    /\ diff_files = [f \in Shared |-> DiffRecord(f)]
    /\ pending_jobs = <<>>
    /\ active_jobs = <<>>
    /\ completed_jobs = 0
    /\ total_jobs = 0
    /\ workers = <<>>
    /\ pool_queue = <<>>
    /\ pool_max = 1
    /\ retry_timers = <<>>
    /\ signal_queue = <<>>
    /\ cache = {}
    /\ last_ready = {}
    /\ ui_calls = 0
    /\ last_call = NoCall
    /\ scanner = ScannerWorker
    /\ tree = <<>>
    /\ xmp = <<>>
    /\ locking = [mutex |-> "None", at |-> [t \in Threads |-> Idle], requests |-> 0,
                  held |-> {}, todo |-> {}]
    /\ disk = <<>>

NextMutex ==
    \/ \E f \in Shared, side \in Sides :
          call_request(f, side) /\ UNCHANGED <<scanner, tree, xmp, disk>>
    \/ \E t \in Threads : acquire(t) /\ UNCHANGED <<scanner, tree, xmp, disk>>
    \/ \E t \in Threads : locked_is_job_scheduled(t) /\ UNCHANGED <<scanner, tree, xmp, disk>>
    \/ \E t \in Threads : locked_insert(t) /\ UNCHANGED <<scanner, tree, xmp, disk>>
    \/ \E t \in Threads : locked_process_pending_jobs(t) /\ UNCHANGED <<scanner, tree, xmp, disk>>
    \/ \E t \in Threads : locked_on_job_finished(t) /\ UNCHANGED <<scanner, tree, xmp, disk>>
    \/ \E w \in DOMAIN workers : worker_run(w) /\ UNCHANGED <<scanner, tree, xmp, disk>>
    \/ call_on_job_finished /\ UNCHANGED <<scanner, tree, xmp, disk>>
    \/ call_cancel_all_jobs /\ UNCHANGED <<scanner, tree, xmp, disk>>
    \/ call_set_diff_files /\ UNCHANGED <<scanner, tree, xmp, disk>>
    \/ \E t \in Threads :
          locked_schedule_preview_generation(t) /\ UNCHANGED <<scanner, tree, xmp, disk>>
    \/ \E t \in Threads : locked_clear_pending(t) /\ UNCHANGED <<scanner, tree, xmp, disk>>
    \/ \E t \in Threads : locked_cancel_worker(t) /\ UNCHANGED <<scanner, tree, xmp, disk>>
    \/ \E t \in Threads : locked_cancel_done(t) /\ UNCHANGED <<scanner, tree, xmp, disk>>
    \/ \E w \in DOMAIN workers : worker_begin(w) /\ UNCHANGED <<scanner, tree, xmp, disk>>
    \/ \E w \in DOMAIN workers : worker_lock(w) /\ UNCHANGED <<scanner, tree, xmp, disk>>
    \/ \E w \in DOMAIN workers : worker_locked(w) /\ UNCHANGED <<scanner, tree, xmp, disk>>

(* What the threads do once the UI has made its calls: the main thread     *)
(* runs a call to its end and takes queued signals from its event loop,    *)
(* the pool threads run their workers.                                     *)
ThreadStep ==
    \/ \E t \in Threads : acquire(t)
    \/ \E t \in Threads : locked_is_job_scheduled(t)
    \/ \E t \in Threads : locked_insert(t)
    \/ \E t \in Threads : locked_process_pending_jobs(t)
    \/ \E t \in Threads : locked_on_job_finished(t)
    \/ \E t \in Threads : locked_clear_pending(t)
    \/ \E t \in Threads : locked_cancel_worker(t)
    \/ \E t \in Threads : locked_cancel_done(t)
    \/ \E t \in Threads : locked_schedule_preview_generation(t)
    \/ \E w \in DOMAIN workers : worker_begin(w)
    \/ \E w \in DOMAIN workers : worker_lock(w)
    \/ \E w \in DOMAIN workers : worker_locked(w)
    \/ \E w \in DOMAIN workers : worker_run(w)
    \/ call_on_job_finished

ThreadsRun == ThreadStep /\ UNCHANGED <<scanner, tree, xmp, disk>>

SpecMutex == InitMutex /\ [][NextMutex]_vars /\ WF_vars(ThreadsRun)

(***************************************************************************)
(* Applying the planned actions (app_logic.py, action.py, app_ui.py).      *)
(* disk holds the files of the session and the archive directory with      *)
(* their content, the action planned for every listed pair, the scan       *)
(* result the UI still shows, and the log of the last execution.  A file   *)
(* is named by its directory, the sidecar it derives from, the number of   *)
(* the _NN copy (0: the sidecar itself) and, for a backup, the second in   *)
(* which it was written (0: not a backup).                                 *)
(***************************************************************************)
MaxCopies == 2      \* copies get_unique_name tries (99 in the program)
MaxClock == 2       \* seconds of wall-clock time told apart
MaxApplies == 2     \* times the planned actions are applied

action_names == <<"No action", "Keep archive", "Keep session", "Keep both">>
ActionIds == 0..3

Path(dir, base, copy, bak) == [dir |-> dir, base |-> base, copy |-> copy, bak |-> bak]
session_path_of(f) == Path("session", f, 0, 0)
archive_path_of(f) == Path("archive", f, 0, 0)
exists(files, path) == path \in DOMAIN files

Copy(src, dest) == [command |-> "copy", src |-> src, dest |-> dest]
(* An exception raised where a command was to be built.                    *)
Raise(exception, path) == [command |-> exception, src |-> path, dest |-> path]
CommandGroup(action_id, xmp_name, commands) ==
    [action_id |-> action_id, xmp_name |-> xmp_name, commands |-> commands]

(* get_unique_name looking into the archive directory only.                *)
get_unique_name_archive_only(files, base_name, archive_dir, session_dir) ==
    LET free == {i \in 1..MaxCopies : ~exists(files, Path(archive_dir, base_name, i, 0))}
    IN IF free = {} THEN 0 ELSE CHOOSE i \in free : \A j \in free : i <= j

(* get_unique_name: the first _NN under which no file exists in either     *)
(* directory; 0 stands for the ValueError after the last candidate.        *)
get_unique_name(files, base_name, archive_dir, session_dir) ==
    LET free == {i \in 1..MaxCopies :
                    ~(\/ exists(files, Path(archive_dir, base_name, i, 0))
                      \/ exists(files, Path(session_dir, base_name, i, 0)))}
    IN IF free = {} THEN 0 ELSE CHOOSE i \in free : \A j \in free : i <= j

get_keep_both_commands(files, session_path, archive_path) ==
    LET i == get_unique_name(files, archive_path.base, archive_path.dir, session_path.dir)
        new_archive_path == Path(archive_path.dir, archive_path.base, i, 0)
        new_session_path == Path(session_path.dir, archive_path.base, i, 0)
    IN IF i = 0 THEN <<Raise("ValueError", archive_path)>>
       ELSE <<Copy(archive_path, new_archive_path),
              Copy(new_archive_path, new_session_path),
              Copy(session_path, archive_path)>>

(* The commands of one pair with a planned action other than 0.            *)
commands_of(files, action_id, session_path, archive_path) ==
    IF action_id = 1 THEN <<Copy(session_path, archive_path)>>
    ELSE IF action_id = 2 THEN <<Copy(archive_path, session_path)>>
    ELSE get_keep_both_commands(files, session_path, archive_path)

(* self.actions.items(), in the order in which the scan listed the pairs.  *)
ActionOrder == <<"a.xmp", "b.xmp">>

get_apply_changes_commands(files, actions) ==
    LET planned == SelectSeq(ActionOrder,
                             LAMBDA f : f \in DOMAIN actions /\ actions[f] # 0)
    IN [n \in 1..Len(planned) |->
           CommandGroup(actions[planned[n]], planned[n],
                        commands_of(files, actions[planned[n]],
                                    session_path_of(planned[n]),
                                    archive_path_of(planned[n])))]

(* create_backup: nothing when backups are disabled; the backup is named   *)
(* after the file and the current second; a copy that cannot be written    *)
(* (the directory takes no new file) is reported and given up.             *)
create_backup(d, file_path) ==
    LET backup_path == Path(file_path.dir, file_path.base, file_path.copy, d.clock)
    IN IF ~d.enable_backups \/ ~exists(d.files, file_path) THEN d
       ELSE IF file_path.dir \in d.readonly /\ ~exists(d.files, backup_path) THEN d
       ELSE [d EXCEPT !.files = Put(@, backup_path, d.files[file_path])]

(* shutil.copy2(src, dest) raises: no source, or a new file in a directory *)
(* that takes none.                                                        *)
copy2_raises(d, src, dest) ==
    \/ ~exists(d.files, src)
    \/ dest.dir \in d.readonly /\ ~exists(d.files, dest)

(* execute_commands: the loop of lines 78-101 over the copy commands, left *)
(* by the first exception (105-108).  overwritten is a history field: the  *)
(* content every overwritten file had before.                              *)
RECURSIVE execute_commands(_, _)
execute_commands(d, commands) ==
    IF commands = <<>> THEN [d EXCEPT !.result = "completed"]
    ELSE LET src == Head(commands).src
             dest == Head(commands).dest
             logged == [d EXCEPT !.execution_log = Append(@, Head(commands))]
             backed == IF exists(d.files, dest) THEN create_backup(logged, dest)
                       ELSE logged
         IN IF copy2_raises(backed, src, dest)
            THEN [backed EXCEPT !.result = "error"]
            ELSE execute_commands(
                    [backed EXCEPT
                        !.files = Put(@, dest, backed.files[src]),
                        !.overwritten =
                            IF exists(d.files, dest)
                            THEN @ \cup {[path |-> dest, content |-> d.files[dest]]}
                            ELSE @],
                    Tail(commands))

RECURSIVE all_commands(_)
all_commands(groups) ==
    IF groups = <<>> THEN <<>>
    ELSE Head(groups).commands \o all_commands(Tail(groups))

(* start_scan and its result: the pairs whose sidecars differ, no action   *)
(* planned for any of them.                                                *)
scan(files) ==
    LET listed == {f \in Shared :
                      /\ exists(files, session_path_of(f))
                      /\ exists(files, archive_path_of(f))
                      /\ files[session_path_of(f)] # files[archive_path_of(f)]}
    IN [f \in listed |-> 0]

(* on_action_button_clicked / trigger_action_by_id for a listed pair.      *)
trigger_action_by_id(f, action_id) ==
    /\ f \in DOMAIN disk.actions
    /\ disk.actions[f] # action_id
    /\ disk' = [disk EXCEPT !.actions[f] = action_id, !.last = "action"]

(* apply_changes: the commands are built for every planned action and,     *)
(* unless this is a dry run, executed by the dialog's constructor; the     *)
(* directories are scanned again if the dialog is then accepted.           *)
apply_changes(dry_run, accepted) ==
    /\ disk.applies < MaxApplies
    /\ \E f \in DOMAIN disk.actions : disk.actions[f] # 0
    /\ LET groups == get_apply_changes_commands(disk.files, disk.actions)
           commands == all_commands(groups)
           started == [disk EXCEPT !.applies = @ + 1, !.execution_log = <<>>,
                                   !.before = disk.files, !.groups = groups]
       IN IF \E n \in 1..Len(commands) : commands[n].command = "ValueError"
          THEN disk' = [started EXCEPT !.result = "ValueError", !.last = "apply",
                                       !.groups = <<>>]
          ELSE IF dry_run
          THEN disk' = [started EXCEPT !.result = "dry run", !.last = "apply"]
          ELSE LET done == execute_commands(started, commands)
               IN disk' = [done EXCEPT
                              !.actions = IF accepted THEN scan(done.files) ELSE @,
                              !.last = "apply"]

(* A second passes.                                                        *)
tick ==
    /\ disk.clock < MaxClock
    /\ disk' = [disk EXCEPT !.clock = @ + 1, !.last = "tick"]

(* Files that may lie in the directories besides the sidecars, and the      *)
(* directories that may take no new file.                                  *)
Strays == {Path("session", "a.xmp", 1, 0), Path("archive", "a.xmp", 2, 0)}
Readonly == {{}, {"archive"}}

Sidecars == [p \in {session_path_of(f) : f \in Shared} \cup {archive_path_of(f) : f \in Shared}
                |-> <<p.dir, p.base>>]

InitApply ==
    /\ darktable_cli_path = "darktable-cli"
    /\ preview_max_dimension = DefaultDimension
    /\ max_threads = 1
    /\ diff_files = <<>>
    /\ pending_jobs = <<>>
    /\ active_jobs = <<>>
    /\ completed_jobs = 0
    /\ total_jobs = 0
    /\ workers = <<>>
    /\ pool_queue = <<>>
    /\ pool_max = 1
    /\ retry_timers = <<>>
    /\ signal_queue = <<>>
    /\ cache = {}
    /\ last_ready = {}
    /\ ui_calls = 0
    /\ last_call = NoCall
    /\ scanner = ScannerWorker
    /\ tree = <<>>
    /\ xmp = <<>>
    /\ locking = <<>>
    /\ \E stray \in SUBSET Strays, enable_backups \in BOOLEAN, readonly \in Readonly :
          LET files == [p \in DOMAIN Sidecars \cup stray |->
                           IF p \in DOMAIN Sidecars THEN Sidecars[p]
                           ELSE <<"stray", p.base>>]
          IN disk = [files |-> files, actions |-> scan(files),
                     enable_backups |-> enable_backups, readonly |-> readonly,
                     clock |-> 1, applies |-> 0, execution_log |-> <<>>,
                     result |-> "none", overwritten |-> {}, before |-> files,
                     groups |-> <<>>, last |-> "none"]

NextApply ==
    \/ \E f \in Shared, action_id \in ActionIds :
          trigger_action_by_id(f, action_id) /\ UNCHANGED <<manager_vars, scanner, tree, xmp, locking>>
    \/ \E dry_run \in BOOLEAN, accepted \in BOOLEAN :
          apply_changes(dry_run, accepted) /\ UNCHANGED <<manager_vars, scanner, tree, xmp, locking>>
    \/ tick /\ UNCHANGED <<manager_vars, scanner, tree, xmp, locking>>

SpecApply == InitApply /\ [][NextApply]_vars

(***************************************************************************)
(* Properties.                                                             *)
(***************************************************************************)
Handed == {w \in WorkerIds : workers[w].pc \in {"queued"} \cup RunPcs}
Rendering == {w \in WorkerIds : workers[w].process = "running"}
Surviving == DOMAIN workers \cap DOMAIN workers'

(* The jobs outstanding in the manager for a key: pending plus active.     *)
Outstanding(pending, active, key) ==
    Cardinality({i \in 1..Len(pending) : JobKey(pending[i]) = key})
    + (IF key \in DOMAIN active THEN 1 ELSE 0)

C2_AtMostMaxThreads == Cardinality(Handed) <= max_threads

(* C3: a job's renderer is invoked at most max_retries + 1 times, attempt  *)
(* n by a worker with retry_count n - 1; a retry is requested only by a    *)
(* failed attempt below the limit, and the terminal preview_failed comes   *)
(* from the attempt with retry_count = max_retries, after exactly          *)
(* max_retries + 1 invocations.                                            *)
C3_RetryBound ==
    \A w \in WorkerIds :
        /\ workers[w].retry_count \in 0..MaxRetries
        /\ workers[w].attempts \in {workers[w].retry_count, workers[w].retry_count + 1}
        /\ workers[w].emitted = "preview_retry_requested"
              => /\ workers[w].retry_count < MaxRetries
                 /\ workers[w].attempts = workers[w].retry_count + 1
        /\ workers[w].emitted = "preview_failed"
              => /\ workers[w].retry_count = MaxRetries
                 /\ workers[w].attempts = MaxRetries + 1

(* A job that was never cancelled reported its terminal failure.           *)
C3_Witness ==
    \E w \in WorkerIds :
        /\ workers[w].emitted = "preview_failed"
        /\ ~workers[w].stale

(* C4: a request for a (file, side) whose preview is in the cache emits    *)
(* preview_ready with the cached path during the call and adds no job for  *)
(* that key.                                                               *)
RequestedSides(call) ==
    IF call.op = "request_preview_generation" THEN {call.file} \X Sides
    ELSE IF call.op = "request_single_preview_generation"
    THEN {<<call.file, call.side>>}
    ELSE {}

CachedPath(key) ==
    LET rec == diff_files[key[1]]
    IN IF key[2] = "session"
       THEN <<preview_max_dimension, hash_part(rec.session_hash, rec.session_path), "session">>
       ELSE <<preview_max_dimension, hash_part(rec.archive_hash, rec.archive_path), "archive">>

C4_CacheHit ==
    [][\A key \in RequestedSides(last_call') :
          (darktable_cli_path # "" /\ CachedPath(key) \in cache)
          => /\ <<key[1], key[2], CachedPath(key)>> \in last_ready'
             /\ Outstanding(pending_jobs', active_jobs', key)
                   <= Outstanding(pending_jobs, active_jobs, key)]_vars

(* A request has just been answered from the cache.                        *)
C4_Witness ==
    /\ last_call.op = "request_single_preview_generation"
    /\ last_ready # {}

(* C5: no two renderer processes running at the same time write the same   *)
(* cache file.                                                             *)
C5_SingleWriter ==
    \A w1, w2 \in Rendering : w1 # w2 => OutputPath(w1) # OutputPath(w2)

(* C6: once cancel() has been called on a worker, the worker emits none of *)
(* preview_ready, preview_failed, preview_retry_requested, and its         *)
(* renderer is not left running.                                           *)
C6_CancelledIsSilent ==
    [][\A w \in Surviving :
          workers[w].is_cancelled
          => /\ workers'[w].emitted = workers[w].emitted
             /\ workers[w].process # "running"]_vars

(* C7: a run() that has returned has emitted job_finished exactly once.    *)
C7_JobFinishedOnce ==
    \A w \in WorkerIds : workers[w].pc = "done" => workers[w].job_finished = 1

(* C8: cancel_all_jobs empties the pending queue and the active set and    *)
(* has called cancel() on every worker that was active; a worker whose     *)
(* renderer had not started or had already exited is otherwise untouched.  *)
C8_CancelAll ==
    [][last_call'.op = "cancel_all_jobs"
         => /\ pending_jobs' = <<>>
            /\ DOMAIN active_jobs' = {}
            /\ \A key \in DOMAIN active_jobs :
                  LET w == active_jobs[key]
                  IN /\ w \in DOMAIN workers'
                     /\ workers'[w].is_cancelled
                     /\ workers'[w].process # "running"
                     /\ workers[w].process \in {"None", "exited"}
                           => workers'[w].process = workers[w].process]_vars

(* cancel_all_jobs has just cancelled a worker whose renderer had exited.  *)
C8_Witness ==
    /\ last_call.op = "cancel_all_jobs"
    /\ \E w \in WorkerIds : workers[w].is_cancelled /\ workers[w].process = "exited"

(* C9: handling the job_finished of a worker of a cancelled generation     *)
(* removes no entry from the active set and leaves completed_jobs alone.   *)
C9_StaleFinishIgnored ==
    [][(/\ signal_queue # <<>>
        /\ Head(signal_queue).sig = "job_finished"
        /\ workers[Head(signal_queue).w].stale
        /\ signal_queue' = Tail(signal_queue))
       => /\ WorkerKey(Head(signal_queue).w) \in DOMAIN active_jobs
                => WorkerKey(Head(signal_queue).w) \in DOMAIN active_jobs'
          /\ completed_jobs' = completed_jobs]_vars

(* C10: a job that was outstanding when cancel_all_jobs was called starts  *)
(* no renderer afterwards and emits neither preview_ready nor              *)
(* preview_failed.                                                         *)
C10_CancelIsTerminal ==
    [][\A w \in Surviving :
          workers[w].stale
          => /\ workers'[w].attempts = workers[w].attempts
             /\ workers'[w].emitted \in {"preview_ready", "preview_failed"}
                   => workers'[w].emitted = workers[w].emitted]_vars

(* C11: set_diff_files(records), with the renderer configured, cancels    *)
(* every worker that had not finished, makes the working set equal to      *)
(* records, and leaves pending or started exactly one job per (file, side) *)
(* of the records that have a raw image and no cached preview.             *)
Range(seq) == {seq[i] : i \in DOMAIN seq}

RecordPath(f, side) ==
    get_cache_path(preview_max_dimension, side, SidecarHash(f, side), XmpPath(f, side))

PendingKeys(pending) == {JobKey(pending[i]) : i \in DOMAIN pending}

C11_WorkingSet ==
    [][(last_call'.op = "set_diff_files" /\ darktable_cli_path # "")
         => diff_files' = [f \in Range(last_call'.file) |-> DiffRecord(f)]]_vars

C11_JobsDerived ==
    [][(last_call'.op = "set_diff_files" /\ darktable_cli_path # "")
         => /\ PendingKeys(pending_jobs') \cup DOMAIN active_jobs'
                  = {key \in Range(last_call'.file) \X Sides :
                        /\ find_raw_file(key[1]) # NoRaw
                        /\ RecordPath(key[1], key[2]) \notin cache}
            /\ \A key \in Keys : Outstanding(pending_jobs', active_jobs', key) <= 1]_vars

C11_SetDiffFiles ==
    [][(last_call'.op = "set_diff_files" /\ darktable_cli_path # "")
         => /\ diff_files' = [f \in Range(last_call'.file) |-> DiffRecord(f)]
            /\ PendingKeys(pending_jobs') \cup DOMAIN active_jobs'
                  = {key \in Range(last_call'.file) \X Sides :
                        /\ find_raw_file(key[1]) # NoRaw
                        /\ RecordPath(key[1], key[2]) \notin cache}
            /\ \A key \in Keys : Outstanding(pending_jobs', active_jobs', key) <= 1
            /\ \A w \in DOMAIN workers :
                  workers[w].pc # "done" => workers'[w].is_cancelled]_vars

(* C12: a job created by an interactive request is started before every   *)
(* job that was pending when the request was made: after the request the   *)
(* new jobs still pending are in front of the older ones, and no older     *)
(* job was started in their place.  Jobs otherwise leave the pending queue *)
(* from its front and keep their order.                                    *)
Index(pending, key) == CHOOSE i \in DOMAIN pending : JobKey(pending[i]) = key

NewKeys ==
    (PendingKeys(pending_jobs') \cup DOMAIN active_jobs')
    \ (PendingKeys(pending_jobs) \cup DOMAIN active_jobs)

C12_Priority ==
    [][/\ last_call'.op \in {"request_preview_generation",
                             "request_single_preview_generation"}
          => /\ \A i \in DOMAIN pending_jobs' :
                   JobKey(pending_jobs'[i]) \in NewKeys
                   => \A j \in 1..(i - 1) : JobKey(pending_jobs'[j]) \in NewKeys
             /\ PendingKeys(pending_jobs) \ PendingKeys(pending_jobs') # {}
                   => NewKeys \cap PendingKeys(pending_jobs') = {}
       /\ last_call'.op # "set_diff_files"
          => \A i, j \in DOMAIN pending_jobs :
                (i < j /\ JobKey(pending_jobs[i]) \in PendingKeys(pending_jobs'))
                => /\ JobKey(pending_jobs[j]) \in PendingKeys(pending_jobs')
                   /\ Index(pending_jobs', JobKey(pending_jobs[i]))
                         < Index(pending_jobs', JobKey(pending_jobs[j]))]_vars

(* The user selected a file whose session preview is not scheduled while   *)
(* background jobs of another file are pending: its job is in front.       *)
C12_Witness ==
    /\ last_call.op = "request_preview_generation"
    /\ Len(pending_jobs) >= 2
    /\ pending_jobs[1].relative_path = last_call.file
    /\ pending_jobs[2].relative_path # last_call.file

(* C13: whenever the manager is at rest, the pending queue is empty or the *)
(* active set holds max_threads jobs.                                      *)
C13_Saturated ==
    pending_jobs = <<>> \/ Cardinality(DOMAIN active_jobs) >= max_threads

(* C14: when update_settings changes the preview dimension, no cache       *)
(* entry of the old dimension is left, so a request at the old dimension   *)
(* finds nothing cached.                                                   *)
C14_DimensionChange ==
    [][(/\ last_call'.op = "update_settings"
        /\ preview_max_dimension' # preview_max_dimension)
       => \A p \in cache' : p[1] # preview_max_dimension]_vars

(* C15: after clear_cache_for_file for a file of the working set, the     *)
(* current dimension holds no entry keyed by a candidate hash of the file  *)
(* (history_current_hash of either sidecar, path hash of either sidecar),  *)
(* a request for either side finds nothing cached, and every other entry   *)
(* is still there.                                                         *)
CandidateHashes(f) ==
    {<<"hash", SidecarHash(f, side)>> : side \in {x \in Sides : SidecarHash(f, x) # NoHash}}
    \cup {<<"pathhash", XmpPath(f, side)>> : side \in Sides}

C16_NoCliNoJob ==
    [][(/\ last_call'.op \in {"set_diff_files", "request_preview_generation",
                              "request_single_preview_generation"}
        /\ ~Executable(darktable_cli_path))
       => /\ DOMAIN workers' \subseteq DOMAIN workers
          /\ pending_jobs' \in {<<>>, pending_jobs}]_vars

(* The part of C16 that concerns an unset path only. *)
C16_UnsetCliNoJob ==
    [][(/\ last_call'.op \in {"set_diff_files", "request_preview_generation",
                              "request_single_preview_generation"}
        /\ darktable_cli_path = "")
       => /\ DOMAIN workers' \subseteq DOMAIN workers
          /\ pending_jobs' \in {<<>>, pending_jobs}]_vars

(* C17: a worker that was never cancelled does not finish without a       *)
(* notification: when its run() has returned it has emitted preview_ready, *)
(* preview_failed or the request for its retry.                            *)
C17_Notified ==
    \A w \in WorkerIds :
        (workers[w].pc = "done" /\ ~workers[w].is_cancelled)
        => workers[w].emitted # "none"

(* The same for the workers that were given a path Popen can run. *)
C17_NotifiedWhenExecutable ==
    \A w \in WorkerIds :
        (workers[w].pc = "done" /\ ~workers[w].is_cancelled
         /\ Executable(workers[w].cli_path))
        => workers[w].emitted # "none"

(***************************************************************************)
(* Scanner claims.                                                         *)
(***************************************************************************)
Emitted(kind) == {k \in DOMAIN scanner.signals : scanner.signals[k][1] = kind}

Terminal == scanner.pc \in {"Finished", "Cancelled"}

ScanState == IF scanner.pc \in {"walk", "loop", "file"} THEN "Running" ELSE scanner.pc

(* C18: every run of the scanner emits scan_finished exactly once, after   *)
(* its last file_diff_found, however the run ends (loop exhausted, stopped,*)
(* enumeration failed, no sidecar found); the scanner moves Idle ->        *)
(* Running -> {Finished, Cancelled} only; a running scanner reaches a      *)
(* terminal state; what follows scan_finished is only the thread's         *)
(* finished signal of the same step, and a terminal scanner emits nothing. *)
C18_ScanFinishedOnce ==
    /\ [](Cardinality(Emitted("scan_finished")) = IF Terminal THEN 1 ELSE 0)
    /\ [](\A k \in Emitted("scan_finished") :
            /\ \A d \in Emitted("file_diff_found") \cup Emitted("scan_progress") : d < k
            /\ k + 1 = Len(scanner.signals)
            /\ scanner.signals[k + 1][1] = "finished")
    /\ [][ScanState' # ScanState =>
            <<ScanState, ScanState'>> \in
                {<<"Idle", "Running">>, <<"Running", "Finished">>,
                 <<"Running", "Cancelled">>}]_vars
    /\ [][Terminal => Terminal' /\ scanner'.signals = scanner.signals]_vars
    /\ [](ScanState = "Running" => <>Terminal)

(* C18 witness: a stopped run that had emitted a diff has ended with its   *)
(* scan_finished.                                                          *)
C18_Witness ==
    /\ scanner.pc = "Cancelled"
    /\ Emitted("file_diff_found") # {}
    /\ Emitted("scan_finished") # {}

DiffsOf(f) ==
    {k \in DOMAIN scanner.signals : scanner.signals[k] = <<"file_diff_found", f>>}

(* C19: for a session sidecar whose record has a history_auto_hash and it  *)
(* equals its history_current_hash, the scanner emits no file_diff_found   *)
(* and never calls extract_darktable_data on the archive sidecar, whatever *)
(* the archive holds.                                                      *)
C19_UneditedSkipped ==
    \A f \in DOMAIN tree :
        (/\ tree[f].session # Corrupt
         /\ tree[f].session.history_auto_hash # NoHash
         /\ tree[f].session.history_auto_hash = tree[f].session.history_current_hash)
        => /\ DiffsOf(f) = {}
           /\ <<"archive", f>> \notin scanner.extracted

(* C19 witness: a finished scan has read an unedited session sidecar whose *)
(* archive counterpart is a different record.                              *)
C19_Witness ==
    /\ scanner.pc = "Finished"
    /\ \E f \in DOMAIN tree :
         /\ <<"session", f>> \in scanner.extracted
         /\ tree[f].session # Corrupt
         /\ tree[f].session.history_auto_hash = "A"
         /\ tree[f].session.history_current_hash = "A"
         /\ tree[f].archive \in SidecarRecords
         /\ tree[f].archive # tree[f].session

(* The three conditions of a diff, read off the sidecars on disk; a        *)
(* sidecar whose extraction raises has no record and yields no diff.       *)
ShouldDiff(f) ==
    /\ tree[f].archive # Absent
    /\ tree[f].session \in SidecarRecords
    /\ tree[f].archive \in SidecarRecords
    /\ ~(/\ tree[f].session.history_auto_hash # NoHash
         /\ tree[f].session.history_auto_hash = tree[f].session.history_current_hash)
    /\ tree[f].session # tree[f].archive

(* C20: at any moment a file_diff_found has been emitted for a sidecar     *)
(* only if its archive counterpart exists, its session record is not       *)
(* unedited and the two records are unequal, and at most once; when a scan *)
(* that was not stopped has gone through its whole list, it has emitted    *)
(* one for every enumerated sidecar that meets the three conditions.       *)
C20_DiffIff ==
    /\ \A f \in DOMAIN tree :
         /\ Cardinality(DiffsOf(f)) <= 1
         /\ DiffsOf(f) # {} => ShouldDiff(f)
    /\ (/\ scanner.pc = "Finished"
        /\ scanner.is_running
        /\ scanner.i = Len(scanner.xmp_files_to_scan))
       => \A f \in Range(scanner.xmp_files_to_scan) :
             ShouldDiff(f) => DiffsOf(f) # {}

(* C20 witness: a scan that was not stopped has finished with a diff for   *)
(* one sidecar and none for another one whose records are equal.           *)
C20_Witness ==
    /\ scanner.pc = "Finished"
    /\ scanner.is_running
    /\ Len(scanner.xmp_files_to_scan) = 2
    /\ \E f, g \in DOMAIN tree :
         /\ DiffsOf(f) # {}
         /\ tree[f].session.history = tree[f].archive.history
         /\ DiffsOf(g) = {}
         /\ tree[g].session \in SidecarRecords
         /\ tree[g].session = tree[g].archive
         /\ tree[g].session.history_auto_hash = NoHash

(* C21: with the flag cleared by stop(), the scanner takes up no further   *)
(* sidecar; only a sidecar already taken up is finished (its extractions,  *)
(* diff and progress), anything else leaves the count of processed files,  *)
(* the extractions and the diffs alone; a running scanner whose flag is    *)
(* cleared reaches a terminal state; a scanner stopped before run() starts *)
(* never processes a file.                                                 *)
C21_CooperativeStop ==
    /\ [][~scanner.is_running =>
            /\ scanner'.pc = "file" => scanner.pc = "file"
            /\ scanner.pc # "file" =>
                 /\ scanner'.i = scanner.i
                 /\ scanner'.extracted = scanner.extracted
                 /\ Emitted("file_diff_found")' = Emitted("file_diff_found")]_vars
    /\ []((~scanner.is_running /\ ScanState = "Running") => <>Terminal)
    /\ []((scanner.pc = "Idle" /\ ~scanner.is_running) =>
            [](/\ scanner.i = 0
               /\ scanner.extracted = {}
               /\ Emitted("file_diff_found") \cup Emitted("scan_progress") = {}))

(* C21 witness: stop() came while the first of two sidecars, one that      *)
(* yields a diff, was being processed.                                     *)
C21_Witness ==
    /\ ~scanner.is_running
    /\ scanner.pc = "file"
    /\ scanner.i = 0
    /\ Len(scanner.xmp_files_to_scan) = 2
    /\ ShouldDiff(scanner.xmp_files_to_scan[1])

(* The processing of f raises: one of the extractions it performs does.   *)
Raises(f) ==
    /\ tree[f].archive # Absent
    /\ \/ tree[f].session = Corrupt
       \/ /\ tree[f].archive = Corrupt
          /\ ~(/\ tree[f].session.history_auto_hash # NoHash
               /\ tree[f].session.history_auto_hash =
                      tree[f].session.history_current_hash)

(* The loop body has run for f: it either read the session sidecar or, the *)
(* archive counterpart absent, went straight to the progress emission.     *)
Processed(f) ==
    \/ <<"session", f>> \in scanner.extracted
    \/ <<"scan_progress", f>> \in Range(scanner.signals)

(* C22: a sidecar whose processing raises never gets a diff; a scan that   *)
(* was not stopped and has ended has processed every sidecar enumerated    *)
(* after one that raised; and once a sidecar has raised, the scanner still *)
(* reaches its terminal state, where scan_finished has been emitted.       *)
C22_ExceptionContained ==
    /\ [](\A f \in DOMAIN tree : Raises(f) => DiffsOf(f) = {})
    /\ []((Terminal /\ scanner.is_running) =>
            \A k, m \in DOMAIN scanner.xmp_files_to_scan :
                (/\ k < m
                 /\ Raises(scanner.xmp_files_to_scan[k])
                 /\ Processed(scanner.xmp_files_to_scan[k]))
                => Processed(scanner.xmp_files_to_scan[m]))
    /\ []((\E f \in DOMAIN tree : Raises(f) /\ Processed(f)) =>
            <>(Terminal /\ Emitted("scan_finished") # {}))

(* C22 witness: the first of two sidecars raised, and the scan went on to  *)
(* emit the diff of the second and finished.                               *)
C22_Witness ==
    /\ scanner.pc = "Finished"
    /\ Len(scanner.xmp_files_to_scan) = 2
    /\ Raises(scanner.xmp_files_to_scan[1])
    /\ DiffsOf(scanner.xmp_files_to_scan[2]) # {}

(***************************************************************************)
(* Extraction claims.                                                      *)
(***************************************************************************)

(* C23: no call of extract_darktable_data raises: every call returns a     *)
(* record, and on an unreadable file or unparseable content the empty one. *)
(* Violated: a document with an attribute without a namespace raises.      *)
C23_NeverRaises ==
    /\ ~xmp.session_data.raised
    /\ ~xmp.archive_data.raised
    /\ (xmp.session_data.called /\ xmp.session.status # "xml")
          => xmp.session_data.data = EmptyRecord

(* The part of C23 that holds: without an attribute that has no namespace  *)
(* the call returns, with the empty record on an I/O or parse failure.     *)
C23_ReturnsWhenNamespaced ==
    /\ (\A i \in DOMAIN xmp.session.attrs : xmp.session.attrs[i].namespace # NoNamespace)
          => ~xmp.session_data.raised
    /\ (xmp.session_data.called /\ xmp.session.status # "xml")
          => xmp.session_data.data = EmptyRecord

BothExtracted ==
    /\ xmp.session_data.called /\ ~xmp.session_data.raised
    /\ xmp.archive_data.called /\ ~xmp.archive_data.raised

HashesRetained(doc, result) ==
    (result.called /\ ~result.raised /\ doc.status = "xml") =>
        \A i \in DOMAIN doc.attrs :
            (doc.attrs[i].namespace = DarktableNs /\ doc.attrs[i].localname \in HashAttrs)
            => /\ doc.attrs[i].localname \in DOMAIN result.data.top_level_attrs
               /\ result.data.top_level_attrs[doc.attrs[i].localname] = doc.attrs[i].value

(* C24: when the archive sidecar differs from the session sidecar only in  *)
(* the value or presence of import_timestamp, export_timestamp,            *)
(* change_timestamp, print_timestamp and history_end, the two extracted    *)
(* records are equal; and every extracted record holds history_auto_hash   *)
(* and history_current_hash with the document's values when the document   *)
(* has them.                                                               *)
C24_VolatileIgnored ==
    /\ (BothExtracted /\ xmp.edits \subseteq {"volatile"})
          => xmp.session_data.data = xmp.archive_data.data
    /\ HashesRetained(xmp.session, xmp.session_data)
    /\ HashesRetained(xmp.archive, xmp.archive_data)

(* C24 witness: the archive sidecar got a history_end and lost or changed  *)
(* its change_timestamp, both records were extracted and hold both hashes. *)
C24_Witness ==
    /\ BothExtracted
    /\ xmp.edits = {"volatile"}
    /\ xmp.writes = 2
    /\ \E i \in DOMAIN xmp.archive.attrs : xmp.archive.attrs[i].localname = "history_end"
    /\ \E i \in DOMAIN xmp.session.attrs : xmp.session.attrs[i].localname = "change_timestamp"
    /\ \A i \in DOMAIN xmp.archive.attrs :
          xmp.archive.attrs[i] # Attr(DarktableNs, "change_timestamp", "1")
    /\ HashAttrs \subseteq DOMAIN xmp.archive_data.data.top_level_attrs

C27_Summary ==
    xmp.shown =>
        LET sh == xmp.session_data.history
            ah == xmp.archive_data.history
            at(n) == {i \in DOMAIN xmp.summary : xmp.summary[i].step = n}
        IN  /\ \A n \in Steps :
                 LET s == n \in DOMAIN sh
                     a == n \in DOMAIN ah
                     listed == \/ s /\ ~a
                               \/ ~s /\ a
                               \/ s /\ a /\ sh[n].params # ah[n].params
                               \/ s /\ a /\ sh[n].masks # ah[n].masks
                 IN  /\ Cardinality(at(n)) = IF listed THEN 1 ELSE 0
                     /\ \A i \in at(n) :
                          /\ xmp.summary[i].added = (s /\ ~a)
                          /\ xmp.summary[i].removed = (~s /\ a)
                          /\ xmp.summary[i].params = (s /\ a /\ sh[n].params # ah[n].params)
                          /\ xmp.summary[i].mask = (s /\ a /\ sh[n].masks # ah[n].masks)
            /\ \A i, j \in DOMAIN xmp.summary :
                 i < j => StepInt(xmp.summary[i].step) < StepInt(xmp.summary[j].step)

(* C27 witness: masks differ on step 3 only, step 4 is equal on both sides *)
(* and step 10 is new in the session: the summary is step 3 with mask set, *)
(* then step 10 as added.                                                  *)
C27_Witness ==
    /\ xmp.shown
    /\ Len(xmp.summary) = 2
    /\ xmp.summary[1].step = "3"
    /\ xmp.summary[1].mask /\ ~xmp.summary[1].params
    /\ xmp.summary[2].step = "10"
    /\ xmp.summary[2].added
    /\ "4" \in DOMAIN xmp.session_data.history
    /\ "4" \in DOMAIN xmp.archive_data.history

(***************************************************************************)
(* Render worker claims.                                                   *)
(***************************************************************************)

(* C28: a worker whose run() has ended holds no scratch directory: the     *)
(* directory exists only between its creation and the finally clause,      *)
(* i.e. while the worker is in the try block.                              *)
C28_ScratchRemoved ==
    \A w \in DOMAIN workers :
        /\ workers[w].pc = "done" => workers[w].run_temp_dir # "exists"
        /\ workers[w].run_temp_dir = "exists" =>
              workers[w].pc \in {"launch", "communicate", "verify", "except",
                                 "emit_ready", "handle_failure"}

(* C28 witness: a worker cancelled after it had launched its renderer has  *)
(* ended and its scratch directory is removed.                             *)
C28_Witness ==
    \E w \in DOMAIN workers :
        /\ workers[w].pc = "done"
        /\ workers[w].attempts > 0
        /\ workers[w].is_cancelled
        /\ workers[w].run_temp_dir = "removed"

(* C29: a worker emits preview_ready only right after it found its output *)
(* file present and non-empty: on the cache test at the start of run(), or *)
(* after a renderer exit with code 0 followed by the same test; a non-zero *)
(* exit and a timeout raise into the except clause, an exit with code 0    *)
(* without output fails the test, and all three, unless the worker is      *)
(* cancelled, end in _handle_preview_failure, whose choice between a retry *)
(* and preview_failed depends on the retry count alone.                    *)
C29_VerifiedReady ==
    [][\A w \in DOMAIN workers :
         workers[w].pc \in RunPcs =>
            LET a == workers[w]
                b == workers'[w]
            IN  /\ (b.emitted = "preview_ready" /\ a.emitted # "preview_ready") =>
                      \/ a.pc = "cache" /\ OutputPath(w) \in cache
                      \/ a.pc = "emit_ready"
                /\ (b.pc = "emit_ready" /\ a.pc # "emit_ready") =>
                      /\ a.pc = "verify"
                      /\ a.outcome \in {"ok", "empty"}
                      /\ OutputPath(w) \in cache
                /\ (a.pc = "communicate" /\ b.outcome \in {"nonzero", "timeout"}) =>
                      b.pc = "except"
                /\ (a.pc = "communicate" /\ b.outcome = "empty") =>
                      b.pc = "verify" /\ cache' = cache
                /\ (a.pc = "verify" /\ b.pc # "verify" /\ ~a.is_cancelled
                       /\ OutputPath(w) \notin cache) =>
                      b.pc = "handle_failure"
                /\ (a.pc = "except" /\ b.pc # "except" /\ ~a.is_cancelled) =>
                      b.pc = "handle_failure"
                /\ (a.pc = "handle_failure" /\ b.pc = "done") =>
                      b.emitted = IF a.retry_count < a.max_retries
                                  THEN "preview_retry_requested"
                                  ELSE "preview_failed"]_vars

(* C29 witness: the last attempt of a job ended with exit code 0 and no    *)
(* output; the test of the output file failed and the worker is in         *)
(* _handle_preview_failure with its retries used up.                       *)
C29_Witness ==
    \E w \in DOMAIN workers :
        /\ workers[w].pc = "handle_failure"
        /\ workers[w].outcome = "empty"
        /\ workers[w].retry_count = MaxRetries
        /\ ~workers[w].is_cancelled
        /\ OutputPath(w) \notin cache

(***************************************************************************)
(* Mutex claims.                                                           *)
(***************************************************************************)

(* C30: every step that changes the pending queue or the active set, and   *)
(* the step that reads them for is_job_scheduled, is made by the thread    *)
(* that holds the manager's mutex; and from the moment is_job_scheduled    *)
(* has answered "no" until the job is inserted, no other manager operation *)
(* or completion callback changes the pending queue or the active set.     *)
C30_Serialized ==
    [][/\ (pending_jobs' # pending_jobs \/ active_jobs' # active_jobs) =>
             \E t \in Threads :
                 /\ locking.mutex = t
                 /\ At(t).locked
                 /\ locking'.at[t] # At(t)
       /\ \A t \in Threads :
             (At(t).pc = "is_job_scheduled" /\ locking'.at[t].pc # "is_job_scheduled")
                => locking.mutex = t
       /\ \A t \in Threads :
             (At(t).pc = "insert" /\ locking'.at[t].pc = "insert")
                => UNCHANGED <<pending_jobs, active_jobs>>]_vars

(* C30 witness: the main thread is between the check and the insertion     *)
(* while a job is active, another is pending and a job_finished waits in   *)
(* the event queue.                                                        *)
C30_Witness ==
    /\ At("main").pc = "insert"
    /\ signal_queue # <<>>
    /\ pending_jobs # <<>>
    /\ DOMAIN active_jobs # {}

(***************************************************************************)
(* Retry registration.                                                     *)
(***************************************************************************)
(* The retry workers of the current generation that have not finished:     *)
(* created by a failed attempt, waiting for the signal, the timer or the   *)
(* pool, or running.                                                       *)
LiveRetries ==
    {w \in WorkerIds : /\ workers[w].retry_count > 0
                       /\ workers[w].pc # "done"
                       /\ ~workers[w].is_cancelled
                       /\ ~workers[w].stale}

(* C31: a single-image request for a key whose job has a retry waiting or  *)
(* running creates no second job: it adds no pending job and starts no     *)
(* worker, and a key with a live retry is registered as scheduled.         *)
C31_RetryStaysScheduled ==
    [][\A w \in LiveRetries :
          (/\ last_call'.op = "request_single_preview_generation"
           /\ last_call'.file = workers[w].rel_path
           /\ last_call'.side = workers[w].image_type)
             => /\ pending_jobs' = pending_jobs
                /\ DOMAIN workers' = DOMAIN workers
                /\ is_job_scheduled(workers[w].rel_path, workers[w].image_type)]_vars

(***************************************************************************)
(* Apply-changes claims.                                                   *)
(***************************************************************************)
Executed == disk.last = "apply" /\ disk.result = "completed"
NameOf(group) == action_names[group.action_id + 1]

(* C32: once the planned actions have been executed, a pair planned as     *)
(* "Keep archive" has its archive sidecar as before and its session        *)
(* sidecar equal to that archive version, a pair planned as "Keep session" *)
(* has its session sidecar as before and its archive sidecar equal to that *)
(* session version; and no command group is built for a pair planned as    *)
(* "No action".                                                            *)
C32_ActionsMatchNames ==
    /\ Executed =>
          \A n \in 1..Len(disk.groups) :
             LET session_path == session_path_of(disk.groups[n].xmp_name)
                 archive_path == archive_path_of(disk.groups[n].xmp_name)
             IN /\ NameOf(disk.groups[n]) = "Keep archive" =>
                      /\ disk.files[archive_path] = disk.before[archive_path]
                      /\ disk.files[session_path] = disk.before[archive_path]
                /\ NameOf(disk.groups[n]) = "Keep session" =>
                      /\ disk.files[session_path] = disk.before[session_path]
                      /\ disk.files[archive_path] = disk.before[session_path]
    /\ \A f \in DOMAIN disk.actions :
          action_names[disk.actions[f] + 1] = "No action" =>
             LET groups == get_apply_changes_commands(disk.files, disk.actions)
             IN \A n \in 1..Len(groups) : groups[n].xmp_name # f

BackupsOf(path) ==
    {b \in DOMAIN disk.files : /\ b.bak # 0
                               /\ [b EXCEPT !.bak = 0] = path}

(* C34: with backups enabled, the content that any overwritten file had    *)
(* before it was overwritten is the content of one of its backup files.    *)
C34_BackedUp ==
    disk.enable_backups =>
       \A o \in disk.overwritten :
          \E b \in BackupsOf(o.path) : disk.files[b] = o.content

(* The same, as long as every directory takes new files.                   *)
C34_BackedUpWritable ==
    disk.readonly = {} => C34_BackedUp

(***************************************************************************)
(* Progress claims.                                                        *)
(***************************************************************************)
(* The step is a run of the slot on_job_finished.                          *)
JobFinishedHandled ==
    /\ signal_queue # <<>>
    /\ Head(signal_queue).sig = "job_finished"
    /\ signal_queue' = Tail(signal_queue)
    /\ completed_jobs' = completed_jobs + 1

(* C35: when on_job_finished emits cache_generation_finished, no job is    *)
(* pending, none is active and no retry is outstanding, and the signal has *)
(* not been emitted before for the same batch (the counter had not reached *)
(* the total at an earlier completion).                                    *)
C35_FinishedOnceWhenDone ==
    [][(JobFinishedHandled /\ cache_generation_finished(completed_jobs', total_jobs'))
          => /\ pending_jobs' = <<>>
             /\ DOMAIN active_jobs' = {}
             /\ retry_timers' = <<>>
             /\ \A w \in DOMAIN workers' :
                   workers'[w].retry_count > 0 => workers'[w].pc = "done"
             /\ ~(completed_jobs >= 1 /\ completed_jobs >= total_jobs)]_vars

(* C36: completed_jobs never exceeds total_jobs, so no progress emission   *)
(* reports more jobs done than there are.                                  *)
C36_ProgressBounded ==
    /\ 0 <= completed_jobs
    /\ completed_jobs <= total_jobs

(***************************************************************************)
(* Cache path claims.                                                      *)
(***************************************************************************)
(* The workers created by the step: first attempts made by                 *)
(* process_pending_jobs, retry workers made by _handle_preview_failure.    *)
Created == DOMAIN workers' \ DOMAIN workers

(* The path the manager checks and reports, after the step, for the job of *)
(* a worker.                                                               *)
ManagerPath(worker) ==
    <<preview_max_dimension',
      IF worker.history_hash # NoHash THEN <<"hash", worker.history_hash>>
      ELSE <<"pathhash", worker.xmp_file_path>>,
      worker.image_type>>

(* C37: the file a worker is created to write is the file the manager      *)
(* checks and reports for the worker's job: the current dimension, the     *)
(* history hash or else the hash of the sidecar path, and the side.  This  *)
(* is so for first attempts and for retry workers alike.                   *)
C37_SamePath ==
    [][\A w \in Created :
          /\ run_output_path(workers'[w]) = ManagerPath(workers'[w])
          /\ get_cache_path(preview_max_dimension', workers'[w].image_type,
                            workers'[w].history_hash, workers'[w].xmp_file_path)
             = ManagerPath(workers'[w])]_vars

(* The same for the workers process_pending_jobs creates.                  *)
C37_SamePathFirstAttempt ==
    [][\A w \in Created :
          workers'[w].retry_count = 0 =>
             /\ run_output_path(workers'[w]) = ManagerPath(workers'[w])
             /\ get_cache_path(preview_max_dimension', workers'[w].image_type,
                               workers'[w].history_hash, workers'[w].xmp_file_path)
                = ManagerPath(workers'[w])]_vars

(***************************************************************************)
(* Deadlock freedom.                                                       *)
(***************************************************************************)
(* The thread is inside a manager operation and waits for the manager's    *)
(* mutex.                                                                  *)
WaitsForManager(t) == At(t).pc # "idle" /\ ~At(t).locked

(* The thread, inside cancel_all_jobs, waits for the mutex of a worker     *)
(* that the worker's own thread holds.                                     *)
WaitsForWorker(t) ==
    /\ At(t).pc = "cancel_workers"
    /\ locking.todo \cap locking.held # {}

InCancelAllJobs == At("main").pc \in {"cancel_all_jobs", "cancel_workers"}

(* C38: no thread waits for the manager's mutex while holding it; the      *)
(* thread holding a worker's mutex never waits for the manager's mutex     *)
(* (it is at the statements between lines 645 and 656 and nowhere else);   *)
(* and a cancel_all_jobs that has been called returns.                     *)
C38_DeadlockFree ==
    /\ [](\A t \in Threads : WaitsForManager(t) => locking.mutex # t)
    /\ [](\A w \in locking.held : w \in DOMAIN workers /\ workers[w].pc = "locked")
    /\ [](\A t \in Threads : WaitsForWorker(t) => locking.mutex = t)
    /\ (InCancelAllJobs ~> At("main").pc \notin {"cancel_all_jobs", "cancel_workers"})

(* C38 witness: cancel_all_jobs holds the manager's mutex and waits for    *)
(* the mutex of a worker that is about to start its renderer.              *)
C38_Witness ==
    /\ WaitsForWorker("main")
    /\ locking.mutex = "main"
    /\ \E w \in locking.todo \cap locking.held : ~workers[w].is_cancelled

(***************************************************************************)
(* C39: a call of clear_cache_for_dimension(dim) removes cache entries of  *)
(* dimension dim only, all of them unless rmtree stopped with an OSError,  *)
(* and leaves the pending queue and the active set as they were;           *)
(* clear_all_caches removes entries of every dimension, all of them unless *)
(* rmtree stopped with an OSError; in neither does an exception leave the  *)
(* call, whether the directory is absent or cannot be removed.             *)
(***************************************************************************)
OfDimension(files, dimension) == {p \in files : p[1] = dimension}

C39_ClearFrame ==
    [][/\ last_call'.op = "clear_cache_for_dimension"
          => /\ cache' \subseteq cache
             /\ cache \ cache' \subseteq OfDimension(cache, last_call'.side.dimension)
             /\ last_call'.side.error = "none"
                   => OfDimension(cache', last_call'.side.dimension) = {}
             /\ last_call'.side.raised = "none"
             /\ pending_jobs' = pending_jobs /\ active_jobs' = active_jobs
       /\ last_call'.op = "clear_all_caches"
          => /\ cache' \subseteq cache
             /\ last_call'.side.error = "none" => cache' = {}
             /\ last_call'.side.raised = "none"
             /\ pending_jobs' = pending_jobs /\ active_jobs' = active_jobs]_vars

C39_Witness ==
    /\ last_call.op = "clear_cache_for_dimension"
    /\ last_call.side.removed # {}
    /\ last_call.side.error = "none"
    /\ cache # {}
    /\ DOMAIN active_jobs # {}

(***************************************************************************)
(* C40: in an extracted record each history step's masks are in            *)
(* non-decreasing order and hold, as often as the sidecar has them, the    *)
(* points of exactly the mask items whose number is the step's number (so  *)
(* the list is empty when there is none); items with the number of no step *)
(* are in no list, and two sidecars that differ in such items only give    *)
(* equal records.                                                          *)
(***************************************************************************)
Occurrences(seq, v) == Cardinality({i \in DOMAIN seq : seq[i] = v})

MasksAttached(doc, result) ==
    (result.called /\ ~result.raised /\ doc.status = "xml") =>
        LET items == items_of(doc.children, "masks_history")
        IN  \A n \in DOMAIN result.data.history :
               LET masks == result.data.history[n].masks
               IN  /\ \A i, j \in DOMAIN masks : i < j => masks[i] <= masks[j]
                   /\ \A v \in 1..3 :
                          Occurrences(masks, v)
                             = Cardinality({i \in DOMAIN items :
                                              items[i].mask_num = n /\ items[i].mask_points = v})
                   /\ \A i \in DOMAIN masks : masks[i] \in 1..3

C40_MasksOfStep ==
    /\ MasksAttached(xmp.session, xmp.session_data)
    /\ MasksAttached(xmp.archive, xmp.archive_data)
    /\ (BothExtracted /\ xmp.edits \subseteq {"stray"})
          => xmp.session_data.data = xmp.archive_data.data

C40_Witness ==
    /\ BothExtracted
    /\ xmp.edits = {"stray"}
    /\ \E i \in DOMAIN xmp.archive.children[1].items :
          xmp.archive.children[1].items[i].mask_num = "7"
    /\ xmp.archive_data.data.history["3"].masks = <<1, 2>>
    /\ xmp.archive_data.data.history["10"].masks = <<>>

TypeOK ==
    /\ darktable_cli_path \in CliPaths
    /\ max_threads \in 1..(MaxThreadSetting + 1)
    /\ DOMAIN workers \subseteq 1..(MaxWorkers + 1)

====
